---- MODULE Spec2Model ----
(***************************************************************************)
(* A model of disnake-ext-plugins' Plugin (src/disnake/ext/plugins/        *)
(* plugin.py): the registry a plugin collects at declaration time and the  *)
(* load / unload procedures that push it to, and pull it from, a host bot. *)
(*                                                                         *)
(* One Plugin object is modelled.  The host bots are the environment: a    *)
(* bot records what was added to it, refuses a command whose name it       *)
(* already holds, and any of its calls may raise.  load and unload are     *)
(* coroutines: they are cut into the segments that run without suspension, *)
(* and they suspend only in asyncio.gather over a non-empty hook list.     *)
(***************************************************************************)
EXTENDS Integers, Sequences, FiniteSets, TLC

\* ------------------------------------------------------------------ bounds
\* How many command objects the environment creates, and how many load /
\* unload calls it makes, in each of the specifications below.
MaxEnts == 2
MaxCalls == 1
ChkEnts == 1
ChkCalls == 3
LifeCalls == 2
FailCalls == 2
AttrEnts == 2
SyncCalls == 2
LoopRegs == 2
LoopCalls == 3
TaskCalls == 2
MaxHandles == 3
SubEnts == 2
ReloadCalls == 3
MaxAttach == 2
MaxChildren == 2

\* ------------------------------------------------------------ the universe
None == "None"
\* The four command kinds, in the order load and unload walk them.
Kinds == <<"prefix", "slash", "user", "message">>
KindSet == {Kinds[i] : i \in 1..Len(Kinds)}
\* bot1 is a commands.Bot (a commands.BotBase), bot2 a commands.InteractionBot.
Bots == {"bot1", "bot2"}
\* Callables handed to the decorators: fname is __name__, async is
\* asyncio.iscoroutinefunction(callback).
Callbacks == {[fname |-> "a", async |-> TRUE], [fname |-> "a", async |-> FALSE]}
\* The name argument of a decorator.
NameArgs == {None, "b"}
\* Predicates: A and B are given to the plugin-wide check decorators, L1 and
\* L2 to commands.check on one command.
PluginPreds == {"A", "B"}
LocalPreds == {"L1", "L2"}
\* Listener callbacks by their __name__, and the event argument of add_listeners.
ListenerCallbacks == {"on_x", "g"}
EventArgs == {None, "on_x"}
LoopIds == {"loop1"}
HookCallbacks == {"h1", "h2"}
Stages == {"pre_load", "post_load", "pre_unload", "post_unload"}

VARIABLES
    bot,             \* Plugin._bot
    commands,        \* the four name-keyed maps, each in insertion order
    command_checks,  \* the four plugin-wide check lists
    listeners,       \* Plugin._listeners, in insertion order of the keys
    loops,           \* Plugin._loops
    hooks,           \* the four hook lists
    metadata,        \* Plugin.metadata: its extras and the four default bundles
    before_loop,     \* per loop: its _before_loop callback
    entities,        \* every command object created so far
    loopTask,        \* per loop: "idle", "running", "cancelled" or "failed"
    loopRun,         \* per loop: how far its running task has come
    ready,           \* the bots that have signalled readiness
    created,         \* the tasks safe_task has created, in order
    _tasks,          \* async_utils._tasks: the tasks held
    callbacks,       \* the done callbacks the event loop has yet to call
    driver,          \* who runs the current load / unload: a task, or NoTask (its caller)
    host,            \* per bot: what is registered on it
    pc,              \* where the load / unload coroutine is suspended
    arg,             \* the bot that coroutine was called with
    pending,         \* the hooks of its current stage that still run
    orphans,         \* hooks still running after their gather raised
    log,             \* the steps of the current (or last) load / unload
    ret,             \* outcome of the last operation
    calls,           \* how many load / unload calls were made
    __instances__,   \* GlobalContext.__instances__: key -> instance
    contexts,        \* the GlobalContext instances created so far
    handles,         \* what each GlobalContext(...) call returned
    _command,        \* SubCommandPlaceholder._command: <<>> for None, else <<the subcommand>>
    _deferred_autocompleters, \* SubCommandPlaceholder._deferred_autocompleters
    sub,             \* a sub-registry: its parent and its own Registry Store
    other,           \* the Registry Store of a second plugin
    subgroup,        \* a SubCommandGroupPlaceholder: its _command and _subcommand_placeholders
    attached         \* every parent.sub_command / sub_command_group call made, in order

vars == <<bot, commands, command_checks, listeners, loops, hooks, metadata,
          before_loop, entities, loopTask, loopRun, ready, created, _tasks,
          callbacks, driver, host, pc, arg, pending, orphans, log, ret, calls,
          __instances__, contexts, handles, _command, _deferred_autocompleters,
          sub, other, subgroup, attached>>

registry == <<commands, command_checks, listeners, loops, hooks, metadata, before_loop>>
background == <<created, _tasks, callbacks, driver>>
placeholder == <<_command, _deferred_autocompleters>>
composition == <<sub, other>>
grouping == <<subgroup, attached>>
beside == <<__instances__, contexts, handles, placeholder, composition, grouping>>
runtime == <<bot, loopTask, loopRun, ready, background, host, pc, arg, pending, orphans, log,
             calls, beside>>
\* The plugin, its host and its tasks.
plugin == <<registry, entities, bot, loopTask, loopRun, ready, background, host, pc, arg,
            pending, orphans, log, calls>>

\* ---------------------------------------------------------------- helpers
Range(s) == {s[i] : i \in 1..Len(s)}

RECURSIVE Count(_, _)
Count(x, s) == IF s = <<>> THEN 0
               ELSE (IF Head(s) = x THEN 1 ELSE 0) + Count(x, Tail(s))

IndexOfKey(m, k) ==
    IF \E i \in 1..Len(m) : m[i].key = k
    THEN CHOOSE i \in 1..Len(m) : m[i].key = k
    ELSE 0

\* Mutant: a store that keeps the old entry and adds the new one beside it.
DictSetBeside(m, k, v) == Append(m, [key |-> k, val |-> v])

\* dict.__setitem__: a new key goes last, an old key keeps its place.
DictSet(m, k, v) ==
    IF IndexOfKey(m, k) = 0
    THEN Append(m, [key |-> k, val |-> v])
    ELSE [m EXCEPT ![IndexOfKey(m, k)].val = v]

\* dict.setdefault(key, []).append(value)
DictAppend(m, k, v) ==
    IF IndexOfKey(m, k) = 0
    THEN Append(m, [key |-> k, val |-> <<v>>])
    ELSE [m EXCEPT ![IndexOfKey(m, k)].val = Append(@, v)]

Keys(m) == [i \in 1..Len(m) |-> m[i].key]
Values(m) == [i \in 1..Len(m) |-> m[i].val]

\* No command object.
NoEnt == <<>>

\* What the last operation did: ent is the command object it returned (NoEnt:
\* none); val is the other value it returned, the stage it raised in, or, for
\* a command decorator, whether the callable it was given is a coroutine
\* function; kwargs are the keyword arguments a command decorator was called with.
Ret(op, status, ent, val) ==
    [op |-> op, status |-> status, ent |-> ent, val |-> val, kwargs |-> None]

\* ------------------------------------------------------- attribute bundles
\* A mapping is a record over the keys the model follows; Absent marks a key
\* the mapping does not hold.  Values are written as Python writes them.
Absent == "absent"
\* This Plugin object and its PluginMetadata object.
Self == "self"
SelfMetadata == "self.metadata"

\* An extras dict by what it holds under "plugin" and "metadata"; present is
\* FALSE where there is no dict at all (no "extras" key, or extras=None).
NoExtras == [present |-> FALSE, plugin |-> Absent, metadata |-> Absent]
EmptyExtras == [present |-> TRUE, plugin |-> Absent, metadata |-> Absent]

\* The empty bundle {}.
NoAttrs == [guild_ids |-> Absent, cls |-> Absent, extras |-> NoExtras]

\* A decorator called without keyword arguments: every parameter is None.
NoKwargs == [guild_ids |-> None, cls |-> None, extras |-> NoExtras]

\* The default bundles a plugin is constructed with.  Each kind gets values
\* of its own, so that a bundle taken from the wrong kind shows.
DefaultVariants == {"empty", "ids", "extras", "full"}
DefaultBundle(kind, variant) ==
    CASE variant = "empty" -> NoAttrs
      [] variant = "ids" -> [NoAttrs EXCEPT !.guild_ids = "[" \o kind \o "]"]
      [] variant = "extras" -> [NoAttrs EXCEPT !.extras = EmptyExtras]
      [] variant = "full" ->
            [guild_ids |-> "[" \o kind \o "]", cls |-> "Default_" \o kind,
             extras |-> [present |-> TRUE, plugin |-> "other", metadata |-> Absent]]

\* The keyword arguments the environment calls a decorator with: a falsy
\* guild_ids, an empty extras dict, an extras dict naming another plugin, one
\* whose "plugin" is None, and (prefix commands only) a cls.
KwargsSet ==
    {NoKwargs,
     [NoKwargs EXCEPT !.guild_ids = "[]"],
     [NoKwargs EXCEPT !.extras = EmptyExtras],
     [NoKwargs EXCEPT !.extras = [present |-> TRUE, plugin |-> "other2", metadata |-> "m"]],
     [NoKwargs EXCEPT !.extras = [present |-> TRUE, plugin |-> None, metadata |-> Absent]]}
ClsKwargs == [NoKwargs EXCEPT !.cls = "MyCommand"]

\* PluginMetadata(name=..., extras=extras, command_attrs=... or {}, ...)
PluginMetadata(variant) ==
    [extras |-> [plugin |-> Absent, category |-> Absent],
     attrs |-> [k \in KindSet |-> DefaultBundle(k, variant)]]

\* Tasks are numbered from 1 in the order safe_task creates them.
NoTask == 0

\* A loop's task: not started (or over); "scheduled" from loop.start() until
\* the task first runs; "waiting" in the wait_until_ready of the bot `on`;
\* "iterating" once the loop body runs.  by is the bot of the load that
\* started it.
NotStarted == [phase |-> "none", by |-> None, on |-> None, hook |-> None]

\* ------------------------------------------------------------------- Init
\* A Registry Store with nothing in it.
EmptyStore == [commands |-> [k \in KindSet |-> <<>>],
               command_checks |-> [k \in KindSet |-> <<>>],
               listeners |-> <<>>, loops |-> <<>>]

EmptyHost == [cmds |-> [k \in KindSet |-> {}], listeners |-> <<>>, syncs |-> 0]

\* Plugin.__init__ with the default bundles of `variant`.
Constructed(variant) ==
    /\ metadata = PluginMetadata(variant)
    /\ bot = None
    /\ commands = [k \in KindSet |-> <<>>]
    /\ command_checks = [k \in KindSet |-> <<>>]
    /\ listeners = <<>>
    /\ loops = <<>>
    /\ hooks = [s \in Stages |-> <<>>]
    /\ entities = <<>>   \* the function with the empty domain
    /\ loopTask = [l \in LoopIds |-> "idle"]
    /\ before_loop = [l \in LoopIds |-> None]
    /\ loopRun = [l \in LoopIds |-> NotStarted]
    /\ ready = {}
    /\ created = <<>>
    /\ _tasks = {}
    /\ callbacks = <<>>
    /\ driver = NoTask
    /\ __instances__ = <<>>
    /\ contexts = <<>>
    /\ handles = <<>>
    /\ _command = <<>>
    /\ _deferred_autocompleters = <<>>
    /\ sub = [parent |-> None] @@ EmptyStore
    /\ other = EmptyStore
    /\ subgroup = [command |-> <<>>, children |-> <<>>]
    /\ attached = <<>>
    /\ host = [b \in Bots |-> EmptyHost]
    /\ pc = "idle"
    /\ arg = None
    /\ pending = {}
    /\ orphans = {}
    /\ log = <<>>
    /\ ret = Ret("init", "ok", NoEnt, None)
    /\ calls = 0

\* Plugin(): no default bundles, no extras.
Init == Constructed("empty")

\* ------------------------------------------------- declaration-time surface
\* `name or callback.__name__`
ResolveName(name, callback) == IF name # None THEN name ELSE callback.fname

\* cls(callback, name=..., **attributes): a new command object; its
\* qualified_name is its name, its check list starts empty.
NewEntity(kind, cls, name, attributes, callback) ==
    [kind |-> kind, cls |-> cls, name |-> ResolveName(name, callback),
     callback |-> callback.fname, checks |-> <<>>, attrs |-> attributes]

\* The identity of a new object: the n-th command of its kind made under its name.
NewId(kind, qualified_name) ==
    <<kind, qualified_name,
      1 + Cardinality({e \in DOMAIN entities : e[1] = kind /\ e[2] = qualified_name})>>

Given(callback) == IF callback.async THEN "async" ELSE "sync"

\* dict.setdefault(key, default), for one key
SetDefault(v, default) == IF v = Absent THEN default ELSE v

\* Mutant: a falsy keyword argument taken as not given.
OverrideIfTruthy(default, given) ==
    IF given \notin {None, "[]", "False", "0"} THEN given ELSE default

\* {**attrs, **{k: v for k, v in kwargs.items() if v is not None}}, for one key
Override(default, given) == IF given # None THEN given ELSE default

\* Mutant: the back-references written over what the dict holds.
WithBackRefsForced(extras) ==
    [present |-> TRUE, plugin |-> Self, metadata |-> SelfMetadata]

\* extras.setdefault("plugin", self); extras.setdefault("metadata", self.metadata)
WithBackRefs(extras) ==
    [present |-> TRUE,
     plugin |-> SetDefault(extras.plugin, Self),
     metadata |-> SetDefault(extras.metadata, SelfMetadata)]

\* Plugin._apply_attrs(attrs, **kwargs): the bundle a command is built with.
\* cls is a parameter of command / group of its own, not one of kwargs.
apply_attrs(attrs, kwargs) ==
    [guild_ids |-> Override(attrs.guild_ids, kwargs.guild_ids),
     cls |-> attrs.cls,
     extras |-> WithBackRefs(IF kwargs.extras.present THEN kwargs.extras
                             ELSE attrs.extras)]

\* new_attrs.setdefault("extras", {}) hands back the default bundle's own dict
\* when the caller gave none: the back-references are written into it.
DefaultsAfter(attrs, kwargs) ==
    IF ~kwargs.extras.present /\ attrs.extras.present
    THEN [attrs EXCEPT !.extras = WithBackRefs(@)]
    ELSE attrs

\* The caller's keyword mapping after the call: an extras dict the caller gave
\* is the dict the bundle holds, and the back-references are written into it.
KwargsAfter(kwargs) ==
    [kwargs EXCEPT !.extras = IF @.present THEN WithBackRefs(@) ELSE @]

\* command / group: `if cls is None: cls = attributes.pop("cls", AnyCommand)`.
\* The other kinds have one class and leave the bundle as it is.
Popped(kind, attributes, kwargs) ==
    IF kind = "prefix" /\ kwargs.cls = None
    THEN [attributes EXCEPT !.cls = Absent]
    ELSE attributes

ResolveCls(kind, cls, attributes, kwargs) ==
    IF kind # "prefix" THEN cls
    ELSE IF kwargs.cls # None THEN kwargs.cls
    ELSE SetDefault(attributes.cls, cls)

\* The call that makes the decorator: the bundle is computed there, before
\* any callable is seen.
Attributes(kind, kwargs) == apply_attrs(metadata.attrs[kind], kwargs)

\* Mutant: the decorator call also files the plugin under the metadata's extras.
MetadataAfterFiled(kind, kwargs) ==
    [metadata EXCEPT !.attrs[kind] = DefaultsAfter(@, kwargs), !.extras.plugin = Self]

MetadataAfter(kind, kwargs) ==
    [metadata EXCEPT !.attrs[kind] = DefaultsAfter(@, kwargs)]

\* The entity is constructed and stored under its qualified name.
Construct(op, kind, cls, name, kwargs, callback) ==
    LET attributes == Attributes(kind, kwargs)
        ent == NewEntity(kind, ResolveCls(kind, cls, attributes, kwargs), name,
                         Popped(kind, attributes, kwargs), callback)
        id == NewId(kind, ent.name)
    IN  /\ entities' = entities @@ (id :> ent)
        /\ commands' = [commands EXCEPT ![kind] = DictSet(@, ent.name, id)]
        /\ metadata' = MetadataAfter(kind, kwargs)
        /\ ret' = [Ret(op, "ok", id, Given(callback)) EXCEPT !.kwargs = kwargs]
        /\ UNCHANGED <<command_checks, listeners, loops, hooks, before_loop, runtime>>

\* Mutant: the decorator without its iscoroutinefunction test.
DecoratorUnchecked(op, kind, cls, name, kwargs, callback) ==
    Construct(op, kind, cls, name, kwargs, callback)

\* The decorator every command kind returns.
Decorator(op, kind, cls, name, kwargs, callback) ==
    IF ~callback.async
    THEN /\ ret' = [Ret(op, "TypeError", NoEnt, Given(callback)) EXCEPT !.kwargs = kwargs]
         /\ metadata' = MetadataAfter(kind, kwargs)
         /\ UNCHANGED <<commands, command_checks, listeners, loops, hooks, entities,
                        before_loop, runtime>>
    ELSE Construct(op, kind, cls, name, kwargs, callback)

command(name, kwargs, callback) ==
    Decorator("command", "prefix", "Command", name, kwargs, callback)

group(name, kwargs, callback) ==
    Decorator("group", "prefix", "Group", name, kwargs, callback)

slash_command(name, kwargs, callback) ==
    Decorator("slash_command", "slash", "InvokableSlashCommand", name, kwargs, callback)

user_command(name, kwargs, callback) ==
    Decorator("user_command", "user", "InvokableUserCommand", name, kwargs, callback)

message_command(name, kwargs, callback) ==
    Decorator("message_command", "message", "InvokableMessageCommand", name, kwargs,
              callback)

\* get_parent_plugin(obj): the "plugin" of obj.extras if there is a truthy one.
get_parent_plugin(obj) ==
    IF obj.attrs.extras.plugin \notin {Absent, None}
    THEN obj.attrs.extras.plugin
    ELSE "LookupError"

\* plugin[key] = value
Plugin_setitem(key, value) ==
    /\ metadata' = [metadata EXCEPT !.extras[key] = value]
    /\ ret' = Ret("setitem", "ok", NoEnt, key)
    /\ UNCHANGED <<commands, command_checks, listeners, loops, hooks, entities, before_loop, runtime>>

\* del plugin[key]
Plugin_delitem(key) ==
    /\ IF metadata.extras[key] = Absent
       THEN /\ ret' = Ret("delitem", "KeyError", NoEnt, key)
            /\ UNCHANGED metadata
       ELSE /\ ret' = Ret("delitem", "ok", NoEnt, key)
            /\ metadata' = [metadata EXCEPT !.extras[key] = Absent]
    /\ UNCHANGED <<commands, command_checks, listeners, loops, hooks, entities, before_loop, runtime>>

\* The four plugin-wide check decorators.
\* Mutant: a check decorator that also puts the predicate on the commands the
\* plugin holds already.
AddPluginCheckEager(op, kind, predicate) ==
    /\ command_checks' = [command_checks EXCEPT ![kind] = Append(@, predicate)]
    /\ entities' = [e \in DOMAIN entities |->
                       IF e[1] = kind
                       THEN [entities[e] EXCEPT !.checks = <<predicate>> \o @]
                       ELSE entities[e]]
    /\ ret' = Ret(op, "ok", NoEnt, predicate)
    /\ UNCHANGED <<commands, listeners, loops, hooks, metadata, before_loop, runtime>>

AddPluginCheck(op, kind, predicate) ==
    /\ command_checks' = [command_checks EXCEPT ![kind] = Append(@, predicate)]
    /\ ret' = Ret(op, "ok", NoEnt, predicate)
    /\ UNCHANGED <<commands, listeners, loops, hooks, metadata, entities, before_loop, runtime>>

command_check(predicate) == AddPluginCheck("command_check", "prefix", predicate)

slash_command_check(predicate) == AddPluginCheck("slash_command_check", "slash", predicate)

message_command_check(predicate) ==
    AddPluginCheck("message_command_check", "message", predicate)

user_command_check(predicate) == AddPluginCheck("user_command_check", "user", predicate)

\* commands.check(predicate) applied to a command object the plugin returned:
\* the predicate joins the command's own check list.
local_check(e, predicate) ==
    /\ e \in DOMAIN entities
    /\ entities' = [entities EXCEPT ![e].checks = Append(@, predicate)]
    /\ ret' = Ret("check", "ok", e, predicate)
    /\ UNCHANGED <<registry, runtime>>

\* add_listeners(callback, event=event); listener(event) wraps it.
ListenerKey(callback, event) == IF event = None THEN callback ELSE event

add_listeners(callback, event) ==
    /\ listeners' = DictAppend(listeners, ListenerKey(callback, event), callback)
    /\ ret' = Ret("add_listeners", "ok", NoEnt, None)
    /\ UNCHANGED <<commands, command_checks, loops, hooks, metadata, entities, before_loop, runtime>>

\* Mutant: a register_loop that replaces the callback the loop has.
RegisterLoopReplacing(wait_until_ready, loop) ==
    /\ before_loop' = IF wait_until_ready
                      THEN [before_loop EXCEPT ![loop] = "_before_loop"]
                      ELSE before_loop
    /\ loops' = Append(loops, loop)
    /\ ret' = [Ret("register_loop", "ok", NoEnt, loop) EXCEPT !.kwargs = wait_until_ready]
    /\ UNCHANGED <<commands, command_checks, listeners, hooks, metadata, entities, runtime>>

\* register_loop(wait_until_ready=...)(loop)
register_loop(wait_until_ready, loop) ==
    /\ IF wait_until_ready /\ before_loop[loop] # None
       THEN /\ ret' = [Ret("register_loop", "TypeError", NoEnt, loop)
                         EXCEPT !.kwargs = wait_until_ready]
            /\ UNCHANGED <<loops, before_loop>>
       ELSE /\ before_loop' = IF wait_until_ready
                              THEN [before_loop EXCEPT ![loop] = "_before_loop"]
                              ELSE before_loop
            /\ loops' = Append(loops, loop)
            /\ ret' = [Ret("register_loop", "ok", NoEnt, loop)
                         EXCEPT !.kwargs = wait_until_ready]
    /\ UNCHANGED <<commands, command_checks, listeners, hooks, metadata, entities, runtime>>

\* @loop.before_loop applied by the user: the loop takes the callback it is given.
loop_before_loop(loop) ==
    /\ before_loop' = [before_loop EXCEPT ![loop] = "user"]
    /\ ret' = Ret("before_loop", "ok", NoEnt, loop)
    /\ UNCHANGED <<commands, command_checks, listeners, loops, hooks, metadata, entities,
                   runtime>>

\* load_hook(post=...) and unload_hook(post=...)
HookStage(op, post) ==
    IF op = "load" THEN (IF post THEN "post_load" ELSE "pre_load")
    ELSE (IF post THEN "post_unload" ELSE "pre_unload")

\* Mutant: every hook filed as a load hook.
AddHookForLoad(op, post, callback) ==
    /\ hooks' = [hooks EXCEPT ![HookStage("load", post)] = Append(@, callback)]
    /\ ret' = [Ret(op \o "_hook", "ok", NoEnt, callback) EXCEPT !.kwargs = post]
    /\ UNCHANGED <<commands, command_checks, listeners, loops, metadata, entities, before_loop, runtime>>

AddHook(op, post, callback) ==
    /\ hooks' = [hooks EXCEPT ![HookStage(op, post)] = Append(@, callback)]
    /\ ret' = [Ret(op \o "_hook", "ok", NoEnt, callback) EXCEPT !.kwargs = post]
    /\ UNCHANGED <<commands, command_checks, listeners, loops, metadata, entities, before_loop, runtime>>

load_hook(post, callback) == AddHook("load", post, callback)

unload_hook(post, callback) == AddHook("unload", post, callback)

\* ------------------------------------------------------------ the host bot
\* Mutant: every bot taken for a commands.BotBase.
IsAnyBot(b) == b \in Bots

\* isinstance(bot, commands.BotBase)
IsBotBase(b) == b = "bot1"

\* One step of a load or an unload, as the log keeps it.
Ev(op, kind, idx, ent, x, y) ==
    [op |-> op, kind |-> kind, idx |-> idx, ent |-> ent, x |-> x, y |-> y, reg |-> <<>>]

\* The first entry of a call: which call, on which bot, and the Registry Store
\* it found.
Begin(op, b) ==
    [Ev("begin", op, calls + 1, NoEnt, b, None) EXCEPT !.reg = <<commands, listeners, loops>>]

\* The part of the state a segment of load / unload works on: exc is set once
\* a call has raised (the rest of the segment is then skipped), n counts the
\* host calls made, and the f-th host call raises (f = 0: none is made to).
World == [ents |-> entities, host |-> host, loops |-> loopTask, log |-> log,
          exc |-> FALSE, n |-> 0]

Raise(w, e) == [w EXCEPT !.exc = TRUE, !.n = @ + 1, !.log = Append(@, e)]

HostNames(w, b, kind) == {c.name : c \in w.host[b].cmds[kind]}

\* bot.add_command / add_slash_command / add_user_command / add_message_command:
\* the bot refuses a name it already holds.
HostAdd(w, b, kind, i, e, f) ==
    IF w.n + 1 = f \/ w.ents[e].name \in HostNames(w, b, kind)
    THEN Raise(w, Ev("raise", kind, i, e, "add", w.ents[e].name))
    ELSE [w EXCEPT !.n = @ + 1,
                   !.host[b].cmds[kind] = @ \cup {[name |-> w.ents[e].name, ent |-> e]},
                   !.log = Append(@, Ev("add", kind, i, e, w.ents[e].name, None))]

\* bot.remove_command(name) and its three siblings: an unknown name is ignored.
HostRemove(w, b, kind, i, name, f) ==
    IF w.n + 1 = f
    THEN Raise(w, Ev("raise", kind, i, NoEnt, "remove", name))
    ELSE [w EXCEPT !.n = @ + 1,
                   !.host[b].cmds[kind] = {c \in @ : c.name # name},
                   !.log = Append(@, Ev("remove", kind, i, NoEnt, name, None))]

\* bot.add_listener(listener, event)
HostAddListener(w, b, i, p, f) ==
    IF w.n + 1 = f
    THEN Raise(w, Ev("raise", "listener", i, NoEnt, "add_listener", p[2]))
    ELSE [w EXCEPT !.n = @ + 1,
                   !.host[b].listeners = Append(@, p),
                   !.log = Append(@, Ev("add_listener", "listener", i, NoEnt, p[1], p[2]))]

\* list.remove: the first occurrence goes, a missing one is ignored.
RemoveFirst(s, x) ==
    IF \E i \in 1..Len(s) : s[i] = x
    THEN LET k == CHOOSE i \in 1..Len(s) : s[i] = x /\ \A j \in 1..(i - 1) : s[j] # x
         IN  SubSeq(s, 1, k - 1) \o SubSeq(s, k + 1, Len(s))
    ELSE s

\* bot.remove_listener(listener, event)
HostRemoveListener(w, b, i, p, f) ==
    IF w.n + 1 = f
    THEN Raise(w, Ev("raise", "listener", i, NoEnt, "remove_listener", p[2]))
    ELSE [w EXCEPT !.n = @ + 1,
                   !.host[b].listeners = RemoveFirst(@, p),
                   !.log = Append(@, Ev("remove_listener", "listener", i, NoEnt, p[1], p[2]))]

\* loop.start(): a loop whose task still runs refuses to start again.
LoopStart(w, i, l, f) ==
    IF w.n + 1 = f \/ w.loops[l] = "running"
    THEN Raise(w, Ev("raise", "loop", i, NoEnt, "start", l))
    ELSE [w EXCEPT !.n = @ + 1,
                   !.loops[l] = "running",
                   !.log = Append(@, Ev("start", "loop", i, NoEnt, l, None))]

\* loop.cancel(): only a running task is cancelled.
LoopCancel(w, i, l) ==
    [w EXCEPT !.loops[l] = IF @ = "running" THEN "cancelled" ELSE @,
              !.log = Append(@, Ev("cancel", "loop", i, NoEnt, l, None))]

\* bot._schedule_delayed_command_sync()
HostSync(w, b) ==
    [w EXCEPT !.host[b].syncs = @ + 1,
              !.log = Append(@, Ev("sync", "sync", 0, NoEnt, None, None))]

\* ------------------------------------------------------- load, step by step
\* Mutant: the plugin-wide checks put behind the command's own.
AppendPluginChecks(checks, own) == IF checks # <<>> THEN own \o checks ELSE own

\* command.checks = [*checks, *command.checks], when there are plugin checks.
PrependPluginChecks(checks, own) == IF checks # <<>> THEN checks \o own ELSE own

\* Mutant: every command given the plugin-wide checks of the slash commands.
PrependSlashChecks(w, kind, i, e) ==
    [w EXCEPT !.ents[e].checks = PrependPluginChecks(command_checks["slash"], @),
              !.log = Append(@, Ev("prepend", kind, i, e, None, None))]

prepend_plugin_checks(w, kind, i, e) ==
    [w EXCEPT !.ents[e].checks = PrependPluginChecks(command_checks[kind], @),
              !.log = Append(@, Ev("prepend", kind, i, e, None, None))]

\* for command in self._<kind>_commands.values(): add, then prepend.
RECURSIVE PushCommands(_, _, _, _, _)
PushCommands(w, b, kind, i, f) ==
    IF w.exc \/ i > Len(commands[kind]) THEN w
    ELSE LET e == commands[kind][i].val
             w1 == HostAdd(w, b, kind, i, e, f)
         IN  IF w1.exc THEN w1
             ELSE PushCommands(prepend_plugin_checks(w1, kind, i, e), b, kind, i + 1, f)

\* Mutant: the callbacks of a key walked from the last registered to the first.
RECURSIVE ListenerPairsBackwards(_)
ListenerPairsBackwards(m) ==
    IF m = <<>> THEN <<>>
    ELSE [j \in 1..Len(Head(m).val) |->
             <<Head(m).val[Len(Head(m).val) + 1 - j], Head(m).key>>]
         \o ListenerPairsBackwards(Tail(m))

\* self._listeners.items(), flattened: <<callback, event>> in iteration order.
RECURSIVE ListenerPairs(_)
ListenerPairs(m) ==
    IF m = <<>> THEN <<>>
    ELSE [j \in 1..Len(Head(m).val) |-> <<Head(m).val[j], Head(m).key>>]
         \o ListenerPairs(Tail(m))

RECURSIVE PushListeners(_, _, _, _, _)
PushListeners(w, b, ps, i, f) ==
    IF w.exc \/ i > Len(ps) THEN w
    ELSE PushListeners(HostAddListener(w, b, i, ps[i], f), b, ps, i + 1, f)

RECURSIVE StartLoops(_, _, _)
StartLoops(w, i, f) ==
    IF w.exc \/ i > Len(loops) THEN w
    ELSE StartLoops(LoopStart(w, i, loops[i], f), i + 1, f)

\* Mutant: the message commands pushed before the user commands.
LoadBodyMessageFirst(w, b, f) ==
    LET w1 == IF IsBotBase(b) THEN PushCommands(w, b, "prefix", 1, f) ELSE w
        w2 == PushCommands(w1, b, "slash", 1, f)
        w3 == PushCommands(w2, b, "message", 1, f)
        w4 == PushCommands(w3, b, "user", 1, f)
        w5 == PushListeners(w4, b, ListenerPairs(listeners), 1, f)
    IN  StartLoops(w5, 1, f)

\* load between its two gathers: everything that is pushed to the host.
LoadBody(w, b, f) ==
    LET w1 == IF IsBotBase(b) THEN PushCommands(w, b, "prefix", 1, f) ELSE w
        w2 == PushCommands(w1, b, "slash", 1, f)
        w3 == PushCommands(w2, b, "user", 1, f)
        w4 == PushCommands(w3, b, "message", 1, f)
        w5 == PushListeners(w4, b, ListenerPairs(listeners), 1, f)
    IN  StartLoops(w5, 1, f)

\* ----------------------------------------------------- unload, step by step
\* for command in self._<kind>_commands: remove by key.
RECURSIVE PullCommands(_, _, _, _, _)
PullCommands(w, b, kind, i, f) ==
    IF w.exc \/ i > Len(commands[kind]) THEN w
    ELSE PullCommands(HostRemove(w, b, kind, i, commands[kind][i].key, f),
                      b, kind, i + 1, f)

RECURSIVE PullListeners(_, _, _, _, _)
PullListeners(w, b, ps, i, f) ==
    IF w.exc \/ i > Len(ps) THEN w
    ELSE PullListeners(HostRemoveListener(w, b, i, ps[i], f), b, ps, i + 1, f)

RECURSIVE CancelLoops(_, _)
CancelLoops(w, i) ==
    IF w.exc \/ i > Len(loops) THEN w
    ELSE CancelLoops(LoopCancel(w, i, loops[i]), i + 1)

\* Mutant: an unload that cancels the loops before it removes anything.
UnloadBodyLoopsFirst(w, b, f) ==
    LET w0 == CancelLoops(w, 1)
        w1 == IF IsBotBase(b) THEN PullCommands(w0, b, "prefix", 1, f) ELSE w0
        w2 == PullCommands(w1, b, "slash", 1, f)
        w3 == PullCommands(w2, b, "user", 1, f)
        w4 == PullCommands(w3, b, "message", 1, f)
    IN  PullListeners(w4, b, ListenerPairs(listeners), 1, f)

\* Mutant: an unload that leaves the message commands on the host.
UnloadBodyKeepsMessage(w, b, f) ==
    LET w1 == IF IsBotBase(b) THEN PullCommands(w, b, "prefix", 1, f) ELSE w
        w2 == PullCommands(w1, b, "slash", 1, f)
        w3 == PullCommands(w2, b, "user", 1, f)
        w5 == PullListeners(w3, b, ListenerPairs(listeners), 1, f)
    IN  CancelLoops(w5, 1)

\* Mutant: an unload that takes the plugin-wide checks off the front of every
\* command's check list before it removes anything.
UnloadBodyUnprepends(w, b, f) ==
    LET w0 == [w EXCEPT !.ents = [e \in DOMAIN w.ents |->
                  [w.ents[e] EXCEPT !.checks =
                      SubSeq(@, Len(command_checks[e[1]]) + 1, Len(@))]]]
        w1 == IF IsBotBase(b) THEN PullCommands(w0, b, "prefix", 1, f) ELSE w0
        w2 == PullCommands(w1, b, "slash", 1, f)
        w3 == PullCommands(w2, b, "user", 1, f)
        w4 == PullCommands(w3, b, "message", 1, f)
        w5 == PullListeners(w4, b, ListenerPairs(listeners), 1, f)
    IN  CancelLoops(w5, 1)

\* unload between its two gathers: everything that is pulled from the host.
UnloadBody(w, b, f) ==
    LET w1 == IF IsBotBase(b) THEN PullCommands(w, b, "prefix", 1, f) ELSE w
        w2 == PullCommands(w1, b, "slash", 1, f)
        w3 == PullCommands(w2, b, "user", 1, f)
        w4 == PullCommands(w3, b, "message", 1, f)
        w5 == PullListeners(w4, b, ListenerPairs(listeners), 1, f)
    IN  CancelLoops(w5, 1)

\* ------------------------------------------- the coroutines load and unload
\* asyncio.gather(*(hook() for hook in hooks[stage])): every hook is started.
StartHooks(w, stage) ==
    [w EXCEPT !.log = @ \o [i \in 1..Len(hooks[stage]) |->
                               Ev("hook_start", stage, i, NoEnt, hooks[stage][i], None)]]

Gathered(stage) == {[i |-> i, h |-> hooks[stage][i]] : i \in 1..Len(hooks[stage])}

\* Where a segment leaves the coroutine: suspended in a gather, returned or raised.
Suspended(w, stage) ==
    [w |-> StartHooks(w, stage), pc |-> stage, pending |-> Gathered(stage),
     status |-> "pending", val |-> None]

Returned(w) ==
    [w |-> [w EXCEPT !.log = Append(@, Ev("return", "end", 0, NoEnt, None, None))],
     pc |-> "idle", pending |-> {}, status |-> "ok", val |-> None]

Raised(w, where) ==
    [w |-> [w EXCEPT !.log = Append(@, Ev("raised", "end", 0, NoEnt, where, None))],
     pc |-> "idle", pending |-> {}, status |-> "raised", val |-> where]

\* load from its last gather on: the delayed command sync, then the return.
LoadEnd(w, b) == Returned(HostSync(w, b))

\* Mutant: the command sync triggered before the post-load hooks are awaited.
LoadPostSyncsFirst(w, b) ==
    IF hooks["post_load"] = <<>> THEN LoadEnd(w, b)
    ELSE Suspended(HostSync(w, b), "post_load")

LoadPost(w, b) ==
    IF hooks["post_load"] = <<>> THEN LoadEnd(w, b) ELSE Suspended(w, "post_load")

\* Mutant: a load that undoes what it pushed when a host call raises.
LoadMidRollsBack(w, b, f) ==
    LET w1 == LoadBody(w, b, f)
    IN  IF w1.exc
        THEN Raised([w1 EXCEPT !.ents = w.ents, !.host = w.host, !.loops = w.loops], "body")
        ELSE LoadPost(w1, b)

LoadMid(w, b, f) ==
    LET w1 == LoadBody(w, b, f)
    IN  IF w1.exc THEN Raised(w1, "body") ELSE LoadPost(w1, b)

\* Mutant: a load that pushes everything before it gathers its pre-load hooks.
LoadPreAfterBody(w, b, f) ==
    IF hooks["pre_load"] = <<>> THEN LoadMid(w, b, f)
    ELSE Suspended(LoadBody(w, b, f), "pre_load")

LoadPre(w, b, f) ==
    IF hooks["pre_load"] = <<>> THEN LoadMid(w, b, f) ELSE Suspended(w, "pre_load")

UnloadEnd(w, b) == Returned(HostSync(w, b))

UnloadPost(w, b) ==
    IF hooks["post_unload"] = <<>> THEN UnloadEnd(w, b) ELSE Suspended(w, "post_unload")

\* Mutant: an unload that gathers its post-unload hooks once the commands are
\* removed, before the listeners are removed and the loops cancelled.
UnloadMidAwaitsEarly(w, b, f) ==
    LET w1 == IF IsBotBase(b) THEN PullCommands(w, b, "prefix", 1, f) ELSE w
        w2 == PullCommands(w1, b, "slash", 1, f)
        w3 == PullCommands(w2, b, "user", 1, f)
        w4 == PullCommands(w3, b, "message", 1, f)
    IN  IF w4.exc THEN Raised(w4, "body") ELSE UnloadPost(w4, b)

\* unload between its two gathers, run in one piece: no await in it.
UnloadMid(w, b, f) ==
    LET w1 == UnloadBody(w, b, f)
    IN  IF w1.exc THEN Raised(w1, "body") ELSE UnloadPost(w1, b)

UnloadPre(w, b, f) ==
    IF hooks["pre_unload"] = <<>> THEN UnloadMid(w, b, f) ELSE Suspended(w, "pre_unload")

\* What resumes once the gather of `stage` has returned.
Resume(w, stage, b, f) ==
    CASE stage = "pre_load" -> LoadMid(w, b, f)
      [] stage = "post_load" -> LoadEnd(w, b)
      [] stage = "pre_unload" -> UnloadMid(w, b, f)
      [] stage = "post_unload" -> UnloadEnd(w, b)

Commit(op, b, r) ==
    /\ entities' = r.w.ents
    /\ host' = r.w.host
    /\ loopTask' = r.w.loops
    /\ loopRun' = [l \in LoopIds |->
                      IF r.w.loops[l] # "running" THEN NotStarted
                      ELSE IF loopTask[l] # "running"
                           THEN [NotStarted EXCEPT !.phase = "scheduled", !.by = b]
                           ELSE loopRun[l]]
    /\ log' = r.w.log
    /\ pc' = r.pc
    /\ pending' = r.pending
    /\ ret' = IF driver' = NoTask THEN Ret(op, r.status, NoEnt, r.val) ELSE ret

\* What a step of load / unload leaves of the task that runs it: a coroutine
\* that ended ends its task, whose done callbacks the event loop will call.
Outcome == IF pc' # "idle" THEN "running"
           ELSE IF log'[Len(log')].op = "raised" THEN "raised" ELSE "done"

DoneCallbacks(t) ==
    [i \in 1..Len(created[t].done_callbacks) |->
        [fn |-> created[t].done_callbacks[i], task |-> t]]

Settle ==
    /\ created' = IF driver' = NoTask THEN created
                  ELSE [created EXCEPT ![driver'].state = Outcome]
    /\ callbacks' = IF driver' # NoTask /\ pc' = "idle"
                    THEN callbacks \o DoneCallbacks(driver') ELSE callbacks
    /\ UNCHANGED <<_tasks, beside>>

\* How many host calls that may raise a load (an unload) on bot b makes.
HostCalls(b) ==
    (IF IsBotBase(b) THEN Len(commands["prefix"]) ELSE 0)
    + Len(commands["slash"]) + Len(commands["user"]) + Len(commands["message"])
    + Len(ListenerPairs(listeners)) + Len(loops)

\* Mutant: the handle kept from the first load on.
StoreBotOnce(b) == IF bot = None THEN b ELSE bot

\* self._bot = bot
StoreBot(b) == b

\* The property Plugin.bot: the handle, or RuntimeError while there is none.
Plugin_bot == IF bot = None THEN "RuntimeError" ELSE bot

\* Mutant: a load that empties the command maps it is about to push.
PluginLoadDrains(b, f) ==
    /\ pc = "idle"
    /\ bot' = StoreBot(b)
    /\ arg' = b
    /\ calls' = calls + 1
    /\ Commit("load", b, LoadPre([World EXCEPT !.log = <<Begin("load", b)>>], b, f))
    /\ commands' = [k \in KindSet |-> <<>>]
    /\ UNCHANGED <<command_checks, listeners, loops, hooks, metadata, before_loop, orphans,
                   ready>>

\* The coroutine plugin.load(bot), up to its first suspension (or its end).
\* One load or unload runs at a time.  The log starts afresh with every load
\* and runs on through the unloads after it.
Plugin_load(b, f) ==
    /\ pc = "idle"
    /\ bot' = StoreBot(b)
    /\ arg' = b
    /\ calls' = calls + 1
    /\ Commit("load", b, LoadPre([World EXCEPT !.log = <<Begin("load", b)>>], b, f))
    /\ UNCHANGED <<registry, orphans, ready>>

\* await plugin.load(bot)
load(b, f) ==
    /\ driver' = NoTask
    /\ Plugin_load(b, f)
    /\ Settle

\* The coroutine plugin.unload(bot), up to its first suspension (or its end).
Plugin_unload(b, f) ==
    /\ pc = "idle"
    /\ arg' = b
    /\ calls' = calls + 1
    /\ Commit("unload", b,
              UnloadPre([World EXCEPT !.log = Append(@, Begin("unload", b))], b, f))
    /\ UNCHANGED <<registry, orphans, bot, ready>>

\* await plugin.unload(bot)
unload(b, f) ==
    /\ driver' = NoTask
    /\ Plugin_unload(b, f)
    /\ Settle

Running == IF pc \in {"pre_load", "post_load"} THEN "load" ELSE "unload"

\* A hook of the current gather returns; the last one resumes the coroutine.
HookDone(p, f) ==
    /\ pc # "idle"
    /\ driver' = driver
    /\ p \in pending
    /\ LET w == [World EXCEPT !.log = Append(@, Ev("hook_done", pc, p.i, NoEnt, p.h, None))]
       IN  IF pending = {p}
           THEN Commit(Running, arg, Resume(w, pc, arg, f))
           ELSE /\ log' = w.log
                /\ pending' = pending \ {p}
                /\ UNCHANGED <<entities, host, loopTask, loopRun, pc, ret>>
    /\ UNCHANGED <<registry, orphans, bot, arg, calls, ready>>
    /\ Settle

\* A hook of the current gather raises: gather re-raises at once, load / unload
\* ends there, and the other hooks of the stage keep running on their own.
HookRaise(p) ==
    /\ pc # "idle"
    /\ driver' = driver
    /\ p \in pending
    /\ Commit(Running, arg,
              Raised([World EXCEPT !.log = Append(@, Ev("hook_raise", pc, p.i, NoEnt, p.h, None))],
                     pc))
    /\ orphans' = orphans \cup
           {[call |-> calls, stage |-> pc, i |-> q.i, h |-> q.h] : q \in pending \ {p}}
    /\ UNCHANGED <<registry, bot, arg, calls, ready>>
    /\ Settle

\* A hook left behind by a gather that raised ends, one way or the other.
OrphanDone(o) ==
    /\ o \in orphans
    /\ orphans' = orphans \ {o}
    /\ UNCHANGED <<registry, entities, bot, loopTask, loopRun, ready, background, host, pc,
                   arg, pending, log, ret, calls, beside>>

\* --------------------------------------------------- setup and teardown
Undone == {"scheduled", "running"}

\* Mutant: a safe_task that adds no done callback to the task.
SafeTaskUnreleased(coroutine) ==
    /\ created' = Append(created, [coroutine |-> coroutine, state |-> "scheduled",
                                   done_callbacks |-> <<>>])
    /\ _tasks' = _tasks \cup {Len(created) + 1}

\* async_utils.safe_task: create the task, hold it, have it dropped when done.
safe_task(coroutine) ==
    /\ created' = Append(created, [coroutine |-> coroutine, state |-> "scheduled",
                                   done_callbacks |-> <<"_tasks.discard">>])
    /\ _tasks' = _tasks \cup {Len(created) + 1}

\* Mutant: a setup that runs load to its first suspension before it returns.
SetupAwaits(b) ==
    /\ driver' = NoTask
    /\ Plugin_load(b, 0)
    /\ UNCHANGED <<created, _tasks, callbacks, beside>>

\* setup(bot), called with the event loop running
setup(b) ==
    /\ safe_task([op |-> "load", bot |-> b])
    /\ ret' = Ret("setup", "ok", NoEnt, None)
    /\ UNCHANGED <<registry, entities, bot, loopTask, loopRun, ready, callbacks, driver,
                   host, pc, arg, pending, orphans, log, calls, beside>>

\* teardown(bot), called with the event loop running
teardown(b) ==
    /\ safe_task([op |-> "unload", bot |-> b])
    /\ ret' = Ret("teardown", "ok", NoEnt, None)
    /\ UNCHANGED <<registry, entities, bot, loopTask, loopRun, ready, callbacks, driver,
                   host, pc, arg, pending, orphans, log, calls, beside>>

\* The tasks created before task t have all been started (or cancelled): the
\* event loop starts tasks in the order of their creation.
IsNext(t) == \A u \in 1..(t - 1) : created[u].state # "scheduled"

\* The event loop runs a task for the first time: its coroutine, up to its
\* first suspension (or its end).
TaskStart(t, f) ==
    /\ created[t].state = "scheduled"
    /\ IsNext(t)
    /\ driver' = t
    /\ IF created[t].coroutine.op = "load"
       THEN Plugin_load(created[t].coroutine.bot, f)
       ELSE Plugin_unload(created[t].coroutine.bot, f)
    /\ Settle

\* The event loop runs an unload task for the first time while a load of the
\* plugin is suspended in a gather: setup, teardown and safe_task hold no
\* lock and await nothing.  An unload without hooks has no await that
\* suspends, and runs to its end; the suspended load stays where it is.
TaskStartBeside(t, f) ==
    /\ created[t].state = "scheduled"
    /\ IsNext(t)
    /\ pc \in {"pre_load", "post_load"}
    /\ created[t].coroutine.op = "unload"
    /\ hooks["pre_unload"] = <<>>
    /\ hooks["post_unload"] = <<>>
    /\ LET b == created[t].coroutine.bot
           r == UnloadPre([World EXCEPT !.log = Append(@, Begin("unload", b))], b, f)
       IN  /\ entities' = r.w.ents
           /\ host' = r.w.host
           /\ loopTask' = r.w.loops
           /\ loopRun' = [l \in LoopIds |->
                             IF r.w.loops[l] # "running" THEN NotStarted ELSE loopRun[l]]
           /\ log' = r.w.log
           /\ created' = [created EXCEPT
                             ![t].state = IF r.status = "ok" THEN "done" ELSE "raised"]
    /\ callbacks' = callbacks \o DoneCallbacks(t)
    /\ calls' = calls + 1
    /\ UNCHANGED <<registry, bot, ready, _tasks, driver, pc, arg, pending, orphans, ret,
                   beside>>

\* A task is cancelled: before its coroutine has started, or where the
\* coroutine is suspended, with the hooks it is gathering.
TaskCancel(t) ==
    /\ created[t].state \in Undone
    /\ created' = [created EXCEPT ![t].state = "cancelled"]
    /\ callbacks' = callbacks \o DoneCallbacks(t)
    /\ IF created[t].state = "scheduled"
       THEN UNCHANGED <<entities, loopTask, loopRun, host, pc, pending, log, ret, driver>>
       ELSE /\ driver = t
            /\ driver' = driver
            /\ Commit(Running, arg,
                      Raised([World EXCEPT !.log = Append(@, Ev("cancelled", pc, 0, NoEnt,
                                                                None, None))], pc))
    /\ UNCHANGED <<registry, bot, ready, _tasks, arg, orphans, calls, beside>>

\* The event loop calls the next done callback: _tasks.discard(task).
RunCallback ==
    /\ callbacks # <<>>
    /\ _tasks' = _tasks \ {Head(callbacks).task}
    /\ callbacks' = Tail(callbacks)
    /\ UNCHANGED <<registry, entities, bot, loopTask, loopRun, ready, created, driver, host,
                   pc, arg, pending, orphans, log, ret, calls, beside>>

\* ------------------------------------------------------ the running loops
\* The bot signals readiness.
BotReady(b) ==
    /\ b \notin ready
    /\ ready' = ready \cup {b}
    /\ UNCHANGED <<registry, entities, bot, loopTask, loopRun, background, host, pc, arg,
                   pending, orphans, log, ret, calls, beside>>

\* Mutant: the task enters the loop body without running its callback.
LoopBeforeSkipped(l) ==
    /\ loopTask[l] = "running"
    /\ loopRun[l].phase = "scheduled"
    /\ loopRun' = [loopRun EXCEPT ![l].phase = "iterating", ![l].hook = before_loop[l]]
    /\ UNCHANGED <<registry, entities, bot, loopTask, ready, background, host, pc, arg,
                   pending, orphans, log, ret, calls, beside>>

\* The loop's task runs for the first time and calls the loop's callback.  The
\* one register_loop installs reads self.bot there and then, and waits for that
\* bot; with no callback, or the user's own, the body follows.
LoopBefore(l) ==
    /\ loopTask[l] = "running"
    /\ loopRun[l].phase = "scheduled"
    /\ IF before_loop[l] # "_before_loop"
       THEN /\ loopRun' = [loopRun EXCEPT ![l].phase = "iterating",
                                          ![l].hook = before_loop[l]]
            /\ UNCHANGED loopTask
       ELSE IF Plugin_bot = "RuntimeError"
       THEN /\ loopRun' = [loopRun EXCEPT ![l].phase = "failed",
                                          ![l].hook = "_before_loop"]
            /\ loopTask' = [loopTask EXCEPT ![l] = "failed"]
       ELSE /\ loopRun' = [loopRun EXCEPT ![l].phase = "waiting",
                                          ![l].hook = "_before_loop",
                                          ![l].on = Plugin_bot]
            /\ UNCHANGED loopTask
    /\ UNCHANGED <<registry, entities, bot, ready, background, host, pc, arg, pending,
                   orphans, log, ret, calls, beside>>

\* wait_until_ready returns once the bot waited on is ready; the body follows.
LoopIterate(l) ==
    /\ loopTask[l] = "running"
    /\ loopRun[l].phase = "waiting"
    /\ loopRun[l].on \in ready
    /\ loopRun' = [loopRun EXCEPT ![l].phase = "iterating"]
    /\ UNCHANGED <<registry, entities, bot, loopTask, ready, background, host, pc, arg,
                   pending, orphans, log, ret, calls, beside>>

\* ---------------------------------------------------------- GlobalContext
\* The values a context is given: Undefined (which is falsy), 0 (falsy too)
\* and two truthy ones.
Undefined == "Undefined"
ContextValues == {"0", "9"}
ContextKeys == {"k", "j"}
Truthy(v) == v \notin {Undefined, "0"}

\* Python's `a or b`
Or(a, b) == IF Truthy(a) THEN a ELSE b

\* dict[key], for a key the dict has
DictGet(m, k) == m[IndexOfKey(m, k)].val

\* Mutant: a constructor that makes a new instance for every call.
GlobalContextFresh(key, default) ==
    /\ contexts' = Append(contexts, [key |-> key, value |-> Undefined, default |-> default])
    /\ __instances__' = DictSet(__instances__, key, Len(contexts) + 1)
    /\ handles' = Append(handles, [key |-> key, default |-> default,
                                   self |-> Len(contexts) + 1])
    /\ ret' = Ret("GlobalContext", "ok", <<"context", Len(contexts) + 1>>, None)
    /\ UNCHANGED <<plugin, placeholder, composition, grouping>>

\* GlobalContext(key, default): instances are objects without __bool__ or
\* __len__, so the one found under the key is returned whatever it holds.
GlobalContext(key, default) ==
    /\ IF IndexOfKey(__instances__, key) # 0
       THEN /\ handles' = Append(handles, [key |-> key, default |-> default,
                                           self |-> DictGet(__instances__, key)])
            /\ ret' = Ret("GlobalContext", "ok", <<"context", DictGet(__instances__, key)>>, None)
            /\ UNCHANGED <<contexts, __instances__>>
       ELSE /\ contexts' = Append(contexts, [key |-> key, value |-> Undefined,
                                             default |-> default])
            /\ __instances__' = DictSet(__instances__, key, Len(contexts) + 1)
            /\ handles' = Append(handles, [key |-> key, default |-> default,
                                           self |-> Len(contexts) + 1])
            /\ ret' = Ret("GlobalContext", "ok", <<"context", Len(contexts) + 1>>, None)
    /\ UNCHANGED <<plugin, placeholder, composition, grouping>>

\* handle.set(obj)
GlobalContext_set(h, obj) ==
    /\ contexts' = [contexts EXCEPT ![handles[h].self].value = obj]
    /\ ret' = [Ret("set", "ok", NoEnt, None) EXCEPT !.kwargs = [h |-> h, obj |-> obj]]
    /\ UNCHANGED <<plugin, __instances__, handles, placeholder, composition, grouping>>

\* What self.get(default) gives: the value, a default, or ValueError.
Resolved(self, default) ==
    IF self.value = Undefined
    THEN (IF Or(default, self.default) = Undefined
          THEN [status |-> "ValueError", val |-> None]
          ELSE [status |-> "ok", val |-> Or(default, self.default)])
    ELSE [status |-> "ok", val |-> self.value]

\* handle.get(default); default is Undefined when the call gives none.
GlobalContext_get(h, default) ==
    /\ ret' = [Ret("get", Resolved(contexts[handles[h].self], default).status, NoEnt,
                   Resolved(contexts[handles[h].self], default).val)
                 EXCEPT !.kwargs = [h |-> h, default |-> default]]
    /\ UNCHANGED <<plugin, beside>>

\* -------------------------------------------------- SubCommandPlaceholder
\* One placeholder, made from a callback whose parameters give the subcommand
\* the options x and y.
OptionNames == {"x", "y"}
Autocompleters == {"ac1", "ac2"}
Properties == {"name", "parent_name", "qualified_name", "docstring", "root_parent",
               "description", "connectors", "autocompleters", "parent", "parents", "body",
               "command"}

\* parent.sub_command(**self._kwargs)(self._func): the subcommand, with no
\* option marked and no autocompleter.
NewSubCommand(parent) == [parent |-> parent, marked |-> {}, autocompleters |-> <<>>]

\* The subcommand with the callback installed for the option and the option
\* marked autocomplete.
Installed(cmd, option_name, func) ==
    [cmd EXCEPT !.autocompleters = DictSet(@, option_name, func),
                !.marked = @ \cup {option_name}]

\* Mutant: a replay that installs the callback and leaves the option unmarked.
RECURSIVE ReplayUnmarked(_, _, _)
ReplayUnmarked(cmd, deferred, i) ==
    IF i > Len(deferred) THEN [cmd |-> cmd, status |-> "ok"]
    ELSE IF deferred[i].key \notin OptionNames THEN [cmd |-> cmd, status |-> "ValueError"]
    ELSE ReplayUnmarked([cmd EXCEPT !.autocompleters = DictSet(@, deferred[i].key,
                                                             deferred[i].val)],
                        deferred, i + 1)

\* Mutant: a replay that passes over the names the subcommand does not have.
RECURSIVE ReplaySkipsUnknown(_, _, _)
ReplaySkipsUnknown(cmd, deferred, i) ==
    IF i > Len(deferred) THEN [cmd |-> cmd, status |-> "ok"]
    ELSE IF deferred[i].key \notin OptionNames
    THEN ReplaySkipsUnknown(cmd, deferred, i + 1)
    ELSE ReplaySkipsUnknown(Installed(cmd, deferred[i].key, deferred[i].val), deferred, i + 1)

\* set_parent's loop over the deferred autocompleters, from the i-th on: it
\* raises at the first name that is no option, with the earlier ones installed.
RECURSIVE Replay(_, _, _)
Replay(cmd, deferred, i) ==
    IF i > Len(deferred) THEN [cmd |-> cmd, status |-> "ok"]
    ELSE IF deferred[i].key \notin OptionNames THEN [cmd |-> cmd, status |-> "ValueError"]
    ELSE Replay(Installed(cmd, deferred[i].key, deferred[i].val), deferred, i + 1)

\* set_parent(parent) on the placeholder p
\* set_parent that drops the subcommand again when the replay raises.
SetParentRollingBack(p, parent) ==
    [command |-> IF Replay(NewSubCommand(parent), p.deferred, 1).status = "ok"
                 THEN <<Replay(NewSubCommand(parent), p.deferred, 1).cmd>>
                 ELSE <<>>,
     deferred |-> p.deferred,
     status |-> Replay(NewSubCommand(parent), p.deferred, 1).status]

SetParent(p, parent) ==
    [command |-> <<Replay(NewSubCommand(parent), p.deferred, 1).cmd>>,
     deferred |-> p.deferred,
     status |-> Replay(NewSubCommand(parent), p.deferred, 1).status]

\* autocomplete(option_name)(func) on the placeholder p: on the subcommand when
\* there is one (which refuses a name it has no option for), else deferred.
Autocomplete(p, option_name, func) ==
    IF p.command # <<>>
    THEN (IF option_name \in OptionNames
          THEN [command |-> <<Installed(p.command[1], option_name, func)>>,
                deferred |-> p.deferred, status |-> "ok"]
          ELSE [command |-> p.command, deferred |-> p.deferred, status |-> "ValueError"])
    ELSE [command |-> p.command, deferred |-> DictSet(p.deferred, option_name, func),
          status |-> "ok"]

Placeholder == [command |-> _command, deferred |-> _deferred_autocompleters]

\* One call of parent.sub_command(...) or parent.sub_command_group(...): the
\* parent, who made it, and for a child of the group its place in the list.
Attachment(parent, by, nth) == [on |-> parent, by |-> by, nth |-> nth]

set_parent(parent) ==
    /\ _command' = SetParent(Placeholder, parent).command
    /\ attached' = Append(attached, Attachment(parent, "placeholder", 0))
    /\ _deferred_autocompleters' = SetParent(Placeholder, parent).deferred
    /\ ret' = [Ret("set_parent", SetParent(Placeholder, parent).status, NoEnt, parent)
                 EXCEPT !.kwargs = None]
    /\ UNCHANGED <<plugin, __instances__, contexts, handles, composition, subgroup>>

autocomplete(option_name, func) ==
    /\ _command' = Autocomplete(Placeholder, option_name, func).command
    /\ _deferred_autocompleters' = Autocomplete(Placeholder, option_name, func).deferred
    /\ ret' = [Ret("autocomplete", Autocomplete(Placeholder, option_name, func).status,
                   NoEnt, func) EXCEPT !.kwargs = option_name]
    /\ UNCHANGED <<plugin, __instances__, contexts, handles, composition, grouping>>

\* Reading a property of the placeholder: name and parent_name are kept on the
\* placeholder and qualified_name is made of them; docstring returns
\* self.docstring; the others go through the property command.
Property(property) ==
    CASE property \in {"name", "parent_name", "qualified_name"} -> "ok"
      [] property = "docstring" -> "RecursionError"
      [] OTHER -> IF _command # <<>> THEN "ok" ELSE "RuntimeError"

GetProperty(property) ==
    /\ ret' = [Ret("property", Property(property), NoEnt, None) EXCEPT !.kwargs = property]
    /\ UNCHANGED <<plugin, beside>>

\* ------------------------------------------------ subcommand-group placeholder
\* The group the n-th attachment created: subcommands are attached to it by
\* this name.
GroupEntity(n) == "group" \o ToString(n)

\* A SubCommandPlaceholder as create_placeholder makes it.
NewPlaceholder == [command |-> <<>>, deferred |-> <<>>]

\* for subcommand in self._subcommand_placeholders: subcommand.set_parent(...),
\* from the i-th on; the loop ends at the first set_parent that raises, with
\* that child's subcommand made and the later children untouched.
RECURSIVE BindChildren(_, _, _)
BindChildren(children, parent, i) ==
    IF i > Len(children)
    THEN [children |-> children, status |-> "ok", made |-> i - 1]
    ELSE LET bound == SetParent(children[i], parent)
             next == [children EXCEPT ![i] = [command |-> bound.command,
                                              deferred |-> bound.deferred]]
         IN  IF bound.status # "ok"
             THEN [children |-> next, status |-> bound.status, made |-> i]
             ELSE BindChildren(next, parent, i + 1)

\* SubCommandGroupPlaceholder.set_parent: the group is made on the parent, then
\* every child placeholder is given it as parent, in list order.
Group_set_parent(parent) ==
    LET entity == GroupEntity(Len(attached) + 1)
        result == BindChildren(subgroup.children, entity, 1)
    IN  /\ subgroup' = [command |-> <<entity>>, children |-> result.children]
        /\ attached' = attached \o <<Attachment(parent, "group", 0)>>
                           \o [k \in 1..result.made |-> Attachment(entity, "child", k)]
        /\ ret' = [Ret("group_set_parent", result.status, NoEnt, parent)
                     EXCEPT !.kwargs = None]
        /\ UNCHANGED <<plugin, __instances__, contexts, handles, placeholder, composition>>

\* SubCommandGroupPlaceholder.sub_command without arguments, bound to the group
\* forgets to bind the new placeholder.
GroupSubCommandUnbound ==
    /\ subgroup' = [subgroup EXCEPT !.children = Append(@, NewPlaceholder)]
    /\ attached' = attached
    /\ ret' = [Ret("group_sub_command", "ok", NoEnt, None) EXCEPT !.kwargs = None]
    /\ UNCHANGED <<plugin, __instances__, contexts, handles, placeholder, composition>>

\* SubCommandGroupPlaceholder.sub_command(...)(func): a new placeholder, appended
\* to the list; when the group has its command, the placeholder is given it
\* as parent at once.
Group_sub_command ==
    LET bound == IF subgroup.command # <<>>
                 THEN SetParent(NewPlaceholder, subgroup.command[1])
                 ELSE NewPlaceholder @@ [status |-> "ok"]
    IN  /\ subgroup' = [subgroup EXCEPT !.children =
                         Append(@, [command |-> bound.command, deferred |-> bound.deferred])]
        /\ attached' = IF subgroup.command # <<>>
                       THEN Append(attached, Attachment(subgroup.command[1], "child",
                                                        Len(subgroup.children) + 1))
                       ELSE attached
        /\ ret' = [Ret("group_sub_command", bound.status, NoEnt, None)
                     EXCEPT !.kwargs = None]
        /\ UNCHANGED <<plugin, __instances__, contexts, handles, placeholder, composition>>

\* autocomplete(option_name)(func) on the i-th child placeholder of the group.
Child_autocomplete(i, option_name, func) ==
    LET done == Autocomplete(subgroup.children[i], option_name, func)
    IN  /\ subgroup' = [subgroup EXCEPT !.children[i] =
                         [command |-> done.command, deferred |-> done.deferred]]
        /\ ret' = [Ret("child_autocomplete", done.status, NoEnt, func)
                     EXCEPT !.kwargs = option_name]
        /\ UNCHANGED <<plugin, __instances__, contexts, handles, placeholder, composition,
                       attached>>

\* ------------------------------------------------------ composition layer
\* A sub-registry is declared on its own and later bound into one parent.
\* The plugins it can be bound into: this plugin and a second one.
Parents == {"plugin", "other"}

\* The Registry Store of a parent.
StoreOf(parent) ==
    IF parent = "plugin"
    THEN [commands |-> commands, command_checks |-> command_checks,
          listeners |-> listeners, loops |-> loops]
    ELSE other

\* The sub-registry's own Registry Store.
SubStore ==
    [commands |-> sub.commands, command_checks |-> sub.command_checks,
     listeners |-> sub.listeners, loops |-> sub.loops]

\* What the composition layer leaves alone besides the stores and the objects.
Uncomposed ==
    <<hooks, metadata, before_loop, bot, loopTask, loopRun, ready, background, host, pc,
      arg, pending, orphans, log, calls, __instances__, contexts, handles, placeholder,
      grouping>>

\* A command decorator of the sub-registry: a new command object, stored
\* under its qualified name in the sub-registry's own map of its kind.
SubPlugin_command(op, kind, cls, name, callback) ==
    LET ent == NewEntity(kind, cls, name, NoAttrs, callback)
        id == NewId(kind, ent.name)
    IN  /\ entities' = entities @@ (id :> ent)
        /\ sub' = [sub EXCEPT !.commands[kind] = DictSet(@, ent.name, id)]
        /\ ret' = Ret(op, "ok", id, Given(callback))
        /\ UNCHANGED <<commands, command_checks, listeners, loops, other, Uncomposed>>

\* A plugin-wide check decorator of the sub-registry.
SubPlugin_command_check(op, kind, predicate) ==
    /\ sub' = [sub EXCEPT !.command_checks[kind] = Append(@, predicate)]
    /\ ret' = Ret(op, "ok", NoEnt, predicate)
    /\ UNCHANGED <<commands, command_checks, listeners, loops, other, entities, Uncomposed>>

SubPlugin_add_listeners(callback, event) ==
    /\ sub' = [sub EXCEPT !.listeners = DictAppend(@, ListenerKey(callback, event), callback)]
    /\ ret' = Ret("sub.add_listeners", "ok", NoEnt, None)
    /\ UNCHANGED <<commands, command_checks, listeners, loops, other, entities, Uncomposed>>

SubPlugin_register_loop(loop) ==
    /\ sub' = [sub EXCEPT !.loops = Append(@, loop)]
    /\ ret' = Ret("sub.register_loop", "ok", NoEnt, loop)
    /\ UNCHANGED <<commands, command_checks, listeners, loops, other, entities, Uncomposed>>

\* Mutant: a map merge in which the entry the parent has stays.
RECURSIVE DictUpdateKeeping(_, _, _)
DictUpdateKeeping(m, n, i) ==
    IF i > Len(n) THEN m
    ELSE DictUpdateKeeping(IF IndexOfKey(m, n[i].key) = 0
                           THEN DictSet(m, n[i].key, n[i].val) ELSE m, n, i + 1)

\* m.update(n): the entries of n from its i-th on, set in m in n's order.
RECURSIVE DictUpdate(_, _, _)
DictUpdate(m, n, i) ==
    IF i > Len(n) THEN m
    ELSE DictUpdate(DictSet(m, n[i].key, n[i].val), n, i + 1)

\* m.setdefault(k, []).extend(vs)
DictExtend(m, k, vs) ==
    IF IndexOfKey(m, k) = 0
    THEN Append(m, [key |-> k, val |-> vs])
    ELSE [m EXCEPT ![IndexOfKey(m, k)].val = @ \o vs]

\* The listener lists of n from its i-th key on, concatenated per event key to those of m.
RECURSIVE ListenersUpdate(_, _, _)
ListenersUpdate(m, n, i) ==
    IF i > Len(n) THEN m
    ELSE ListenersUpdate(DictExtend(m, n[i].key, n[i].val), n, i + 1)

\* The merge of one Registry Store into another.
Merged(into, from) ==
    [commands |-> [k \in KindSet |-> DictUpdate(into.commands[k], from.commands[k], 1)],
     command_checks |-> [k \in KindSet |-> into.command_checks[k] \o from.command_checks[k]],
     listeners |-> ListenersUpdate(into.listeners, from.listeners, 1),
     loops |-> into.loops \o from.loops]

\* The stores after `store` has become the Registry Store of `parent`.
Stored(parent, store) ==
    IF parent = "plugin"
    THEN /\ commands' = store.commands
         /\ command_checks' = store.command_checks
         /\ listeners' = store.listeners
         /\ loops' = store.loops
         /\ other' = other
    ELSE /\ other' = store
         /\ UNCHANGED <<commands, command_checks, listeners, loops>>

\* Mutant: a bind that takes a new parent whatever parent it has.
BindAgain(parent) ==
    /\ sub' = [sub EXCEPT !.parent = parent]
    /\ Stored(parent, Merged(StoreOf(parent), SubStore))
    /\ ret' = Ret("bind", "ok", NoEnt, parent)
    /\ UNCHANGED <<entities, Uncomposed>>

\* sub.bind(parent)
bind(parent) ==
    IF sub.parent # None
    THEN /\ ret' = Ret("bind", "AlreadyBoundError", NoEnt, parent)
         /\ UNCHANGED <<commands, command_checks, listeners, loops, sub, other, entities,
                        Uncomposed>>
    ELSE /\ sub' = [sub EXCEPT !.parent = parent]
         /\ Stored(parent, Merged(StoreOf(parent), SubStore))
         /\ ret' = Ret("bind", "ok", NoEnt, parent)
         /\ UNCHANGED <<entities, Uncomposed>>

\* ----------------------------------------------------------- environment
\* The environment is the code that uses the plugin: it declares entities,
\* checks, listeners, loops and hooks, and awaits load and unload.  Each
\* specification below is the plugin under one such environment.
Sum4(m) == Len(m["prefix"]) + Len(m["slash"]) + Len(m["user"]) + Len(m["message"])

AsyncCallbacks == {c \in Callbacks : c.async}

\* What the environment has used already: it hands every predicate, listener
\* callback, loop and hook to the plugin once.
UsedPreds == UNION {Range(command_checks[k]) : k \in KindSet}
UsedLocals == UNION {Range(entities[e].checks) : e \in DOMAIN entities}
UsedHooks == UNION {Range(hooks[s]) : s \in Stages}
UsedListeners == UNION {Range(listeners[i].val) : i \in 1..Len(listeners)}
Declared(kind, name, callback) ==
    IndexOfKey(commands[kind], ResolveName(name, callback)) # 0

\* --- SpecRegistry: the five command decorators on every callable and name,
\* then load and unload on either bot.
NextRegistry ==
    \/ \E n \in NameArgs, c \in Callbacks :
          /\ Cardinality(DOMAIN entities) < MaxEnts
          /\ \/ command(n, NoKwargs, c)
             \/ group(n, NoKwargs, c)
             \/ slash_command(n, NoKwargs, c)
             \/ user_command(n, NoKwargs, c)
             \/ message_command(n, NoKwargs, c)
    \/ \E b \in Bots :
          /\ calls < MaxCalls
          /\ \/ load(b, 0)
             \/ unload(b, 0)

SpecRegistry == Init /\ [][NextRegistry]_vars

\* --- SpecChecks: commands of the four kinds declared at any time, plugin-wide
\* and local checks declared before the first call, and repeated load / unload
\* on one bot.
NextChecks ==
    \/ \E c \in AsyncCallbacks :
          /\ Cardinality(DOMAIN entities) < ChkEnts
          /\ \/ command(None, NoKwargs, c)
             \/ slash_command(None, NoKwargs, c)
             \/ user_command(None, NoKwargs, c)
             \/ message_command(None, NoKwargs, c)
    \/ \E p \in PluginPreds \ UsedPreds :
          /\ calls = 0
          /\ \/ command_check(p)
             \/ slash_command_check(p)
             \/ user_command_check(p)
             \/ message_command_check(p)
    \/ \E e \in DOMAIN entities, p \in LocalPreds \ UsedLocals :
          /\ calls = 0
          /\ local_check(e, p)
    \/ /\ calls < ChkCalls
       /\ \/ load("bot1", 0)
          \/ unload("bot1", 0)

SpecChecks == Init /\ [][NextChecks]_vars

\* --- SpecLifecycle: a plugin declared in full before it is first loaded
\* (commands of every kind, listeners, a loop, hooks that all return), then
\* load and unload on a prefix-capable bot.
NextLifecycle ==
    \/ \E n \in NameArgs, c \in AsyncCallbacks :
          /\ calls = 0
          /\ ~Declared("prefix", n, c)
          /\ command(n, NoKwargs, c)
    \/ \E c \in AsyncCallbacks :
          /\ calls = 0
          /\ \/ ~Declared("slash", None, c) /\ slash_command(None, NoKwargs, c)
             \/ ~Declared("user", None, c) /\ user_command(None, NoKwargs, c)
             \/ ~Declared("message", None, c) /\ message_command(None, NoKwargs, c)
    \/ \E c \in ListenerCallbacks \ UsedListeners, ev \in EventArgs :
          /\ calls = 0
          /\ add_listeners(c, ev)
    \/ \E l \in LoopIds \ Range(loops) :
          /\ calls = 0
          /\ register_loop(FALSE, l)
    \/ \E post \in BOOLEAN, h \in HookCallbacks \ UsedHooks :
          /\ calls = 0
          /\ \/ load_hook(post, h)
             \/ unload_hook(post, h)
    \/ /\ calls < LifeCalls
       /\ pc = "idle"
       /\ \/ load("bot1", 0)
          \/ unload("bot1", 0)
    \/ \E p \in pending : HookDone(p, 0)

SpecLifecycle == Init /\ [][NextLifecycle]_vars

\* --- SpecFailure: a small plugin declared before it is first loaded, whose
\* load hooks may raise and whose host may refuse any call, loaded and
\* unloaded on either bot.
NextFailure ==
    \/ \E c \in AsyncCallbacks :
          /\ calls = 0
          /\ \/ ~Declared("prefix", None, c) /\ command(None, NoKwargs, c)
             \/ ~Declared("slash", None, c) /\ slash_command(None, NoKwargs, c)
    \/ /\ calls = 0
       /\ "A" \notin UsedPreds
       /\ \/ command_check("A")
          \/ slash_command_check("A")
    \/ /\ calls = 0
       /\ "on_x" \notin UsedListeners
       /\ add_listeners("on_x", None)
    \/ \E l \in LoopIds \ Range(loops) :
          /\ calls = 0
          /\ register_loop(FALSE, l)
    \/ \E post \in BOOLEAN, h \in HookCallbacks \ UsedHooks :
          /\ calls = 0
          /\ load_hook(post, h)
    \/ \E b \in Bots :
          /\ calls < FailCalls
          /\ pc = "idle"
          /\ \/ \E f \in 0..HostCalls(b) : load(b, f)
             \/ unload(b, 0)
    \/ \E p \in pending :
          \/ \E f \in 0..HostCalls(arg) : HookDone(p, f)
          \/ HookRaise(p)
    \/ \E o \in orphans : OrphanDone(o)

SpecFailure == Init /\ [][NextFailure]_vars

\* --- SpecSync: a slash command and post hooks declared before the first
\* call, then load and unload on one bot, where any host call may raise and
\* any hook may raise.
NextSync ==
    \/ \E c \in AsyncCallbacks :
          /\ calls = 0
          /\ ~Declared("slash", None, c)
          /\ slash_command(None, NoKwargs, c)
    \/ \E h \in HookCallbacks \ UsedHooks :
          /\ calls = 0
          /\ \/ load_hook(TRUE, h)
             \/ unload_hook(TRUE, h)
    \/ /\ calls < SyncCalls
       /\ pc = "idle"
       /\ \E f \in 0..HostCalls("bot1") :
             \/ load("bot1", f)
             \/ unload("bot1", f)
    \/ \E p \in pending :
          \/ HookDone(p, 0)
          \/ HookRaise(p)
    \/ \E o \in orphans : OrphanDone(o)

SpecSync == Init /\ [][NextSync]_vars

\* --- SpecLoops: loops registered with and without wait_until_ready, the
\* user's own before_loop, loads and unloads on both bots in any order, and
\* the loop's task running in between.
NextLoops ==
    \/ /\ Len(loops) < LoopRegs
       /\ \E w \in BOOLEAN, l \in LoopIds : register_loop(w, l)
    \/ \E l \in LoopIds : before_loop[l] # "user" /\ loop_before_loop(l)
    \/ /\ calls < LoopCalls
       /\ pc = "idle"
       /\ \E b \in Bots : load(b, 0) \/ unload(b, 0)
    \/ \E b \in Bots : BotReady(b)
    \/ \E l \in LoopIds : LoopBefore(l)
    \/ \E l \in LoopIds : LoopIterate(l)

SpecLoops == Init /\ [][NextLoops]_vars

\* --- SpecTasks: a plugin with a command and load hooks, loaded and unloaded
\* through setup and teardown only; the event loop runs the tasks, the hooks
\* and the done callbacks in any order, and a task may be cancelled.
NextTasks ==
    \/ \E c \in AsyncCallbacks :
          /\ created = <<>>
          /\ ~Declared("slash", None, c)
          /\ slash_command(None, NoKwargs, c)
    \/ \E post \in BOOLEAN :
          /\ created = <<>>
          /\ hooks[HookStage("load", post)] = <<>>
          /\ load_hook(post, "h1")
    \/ \E b \in Bots :
          /\ Len(created) < TaskCalls
          /\ setup(b) \/ teardown(b)
    \/ \E t \in DOMAIN created :
          /\ pc = "idle"
          /\ \E f \in 0..HostCalls(created[t].coroutine.bot) : TaskStart(t, f)
    \/ \E t \in DOMAIN created :
          \E f \in 0..HostCalls(created[t].coroutine.bot) : TaskStartBeside(t, f)
    \/ \E p \in pending : HookDone(p, 0) \/ HookRaise(p)
    \/ \E t \in DOMAIN created : TaskCancel(t)
    \/ RunCallback

SpecTasks == Init /\ [][NextTasks]_vars

\* --- SpecContext: contexts constructed under two keys with and without a
\* default, set and read through any handle.
NextContext ==
    \/ /\ Len(handles) < MaxHandles
       /\ \E key \in ContextKeys, default \in {Undefined, "5"} :
             GlobalContext(key, default)
    \/ \E h \in DOMAIN handles, obj \in ContextValues : GlobalContext_set(h, obj)
    \/ \E h \in DOMAIN handles, default \in {Undefined, "0", "9"} :
          GlobalContext_get(h, default)

SpecContext == Init /\ [][NextContext]_vars

\* --- SpecPlaceholder: autocompleters registered, for names the subcommand has
\* and for one it has not, before and after set_parent, and properties read.
NextPlaceholder ==
    \/ \E option_name \in OptionNames \cup {"z"}, func \in Autocompleters :
          autocomplete(option_name, func)
    \/ /\ Len(attached) < MaxAttach
       /\ set_parent("parent1")
    \/ \E property \in Properties : GetProperty(property)

SpecPlaceholder == Init /\ [][NextPlaceholder]_vars

\* --- SpecGroup: a subcommand-group placeholder, the subcommands declared on
\* it before and after its set_parent, and autocompleters for an option and
\* for a name that is no option.
NextGroup ==
    \/ /\ Len(subgroup.children) < MaxChildren
       /\ Group_sub_command
    \/ \E i \in DOMAIN subgroup.children, option_name \in {"x", "z"} :
          Child_autocomplete(i, option_name, "ac1")
    \/ /\ Len(attached) < MaxAttach
       /\ Group_set_parent("parent1")

SpecGroup == Init /\ [][NextGroup]_vars

\* --- SpecReload: a slash command, a plugin-wide check, a listener, a loop
\* and one hook for each stage, each declared at any moment between two
\* calls, before or after a load; load and unload repeated on a
\* prefix-capable bot.
NextReload ==
    \/ /\ pc = "idle"
       /\ \/ \E c \in AsyncCallbacks :
                /\ ~Declared("slash", None, c)
                /\ slash_command(None, NoKwargs, c)
          \/ /\ command_checks["slash"] = <<>>
             /\ slash_command_check("A")
          \/ /\ listeners = <<>>
             /\ add_listeners("on_x", None)
          \/ \E l \in LoopIds \ Range(loops) : register_loop(FALSE, l)
          \/ \E post \in BOOLEAN :
                \/ /\ hooks[HookStage("load", post)] = <<>>
                   /\ load_hook(post, "h1")
                \/ /\ hooks[HookStage("unload", post)] = <<>>
                   /\ unload_hook(post, "h2")
    \/ /\ calls < ReloadCalls
       /\ pc = "idle"
       /\ \/ load("bot1", 0)
          \/ unload("bot1", 0)
    \/ \E p \in pending : HookDone(p, 0)

SpecReload == Init /\ [][NextReload]_vars

\* --- SpecSub: a plugin declared first, a sub-registry declared after it
\* and then bound into the plugin or into a second plugin; each of the two
\* is given one check, one listener and one loop.
NextSub ==
    \/ /\ sub = [parent |-> None] @@ EmptyStore
       /\ \/ /\ Cardinality(DOMAIN entities) < SubEnts
             /\ \E n \in NameArgs, c \in AsyncCallbacks : slash_command(n, NoKwargs, c)
          \/ /\ command_checks["slash"] = <<>>
             /\ slash_command_check("A")
          \/ /\ listeners = <<>>
             /\ add_listeners("on_x", None)
          \/ /\ loops = <<>>
             /\ \E l \in LoopIds : register_loop(FALSE, l)
    \/ /\ sub.parent = None
       /\ \/ /\ Cardinality(DOMAIN entities) < SubEnts
             /\ \E n \in NameArgs, c \in AsyncCallbacks :
                   SubPlugin_command("sub.slash_command", "slash", "InvokableSlashCommand",
                                     n, c)
          \/ /\ sub.command_checks["slash"] = <<>>
             /\ SubPlugin_command_check("sub.slash_command_check", "slash", "B")
          \/ /\ sub.listeners = <<>>
             /\ \E ev \in EventArgs : SubPlugin_add_listeners("g", ev)
          \/ /\ sub.loops = <<>>
             /\ \E l \in LoopIds : SubPlugin_register_loop(l)
    \/ \E parent \in Parents : bind(parent)

SpecSub == Init /\ [][NextSub]_vars

\* --- SpecAttrs: a plugin constructed with default bundles; the decorators
\* called with keyword arguments; the plugin's own extras written and deleted.
InitAttrs == \E variant \in DefaultVariants : Constructed(variant)

NextAttrs ==
    \/ \E kw \in KwargsSet \cup {ClsKwargs}, c \in AsyncCallbacks :
          /\ Cardinality(DOMAIN entities) < AttrEnts
          /\ command(None, kw, c)
    \/ \E kw \in {NoKwargs, ClsKwargs}, c \in AsyncCallbacks :
          /\ Cardinality(DOMAIN entities) < AttrEnts
          /\ group("b", kw, c)
    \/ \E kw \in KwargsSet, c \in Callbacks :
          /\ Cardinality(DOMAIN entities) < AttrEnts
          /\ slash_command(None, kw, c)
    \/ \E kw \in {NoKwargs, [NoKwargs EXCEPT !.guild_ids = "[]"]}, c \in AsyncCallbacks :
          /\ Cardinality(DOMAIN entities) < AttrEnts
          /\ \/ user_command(None, kw, c)
             \/ message_command(None, kw, c)
    \/ Plugin_setitem("plugin", Self)
    \/ Plugin_delitem("plugin")

SpecAttrs == InitAttrs /\ [][NextAttrs]_vars

\* ------------------------------------------------------------- the claims
\* A register_loop(wait_until_ready=True) has just been applied to a loop that
\* had a callback.
RegisteredOver ==
    /\ ret'.op = "register_loop"
    /\ ret # ret' \/ loops # loops'
    /\ ret'.kwargs = TRUE
    /\ before_loop[ret'.val] # None

\* The tasks safe_task created that have not completed, and those a done
\* callback yet to be called will drop.
NotCompleted == {t \in DOMAIN created : created[t].state \in Undone}
ToBeDropped == {callbacks[i].task : i \in DOMAIN callbacks}

\* setup or teardown has just returned.
Scheduled == Len(created') = Len(created) + 1

\* Every deferred name is an option of the subcommand.
AllKnown(p) == \A i \in DOMAIN p.deferred : p.deferred[i].key \in OptionNames

\* The option is marked and the callback installed for it on the subcommand.
InstalledOn(cmd, option_name, func) ==
    /\ cmd # <<>>
    /\ option_name \in cmd[1].marked
    /\ IndexOfKey(cmd[1].autocompleters, option_name) # 0
    /\ DictGet(cmd[1].autocompleters, option_name) = func

\* The first handle constructed with the key of handle h.
FirstOf(h) == CHOOSE g \in DOMAIN handles :
                 /\ handles[g].key = handles[h].key
                 /\ \A f \in DOMAIN handles : handles[f].key = handles[h].key => g <= f

\* What a get through handle h, with no default of its own, gives.
Read(h) == Resolved(contexts[handles[h].self], Undefined)

\* The loop's task enters the body after the callback of register_loop.
EntersBody(l) ==
    /\ loopRun[l].phase # "iterating"
    /\ loopRun'[l].phase = "iterating"
    /\ loopRun'[l].hook = "_before_loop"

\* Reading the log: a call's entries run from its "begin" to its "end" entry.
IsBegin(j, op) == log[j].op = "begin" /\ log[j].kind = op

\* The last entry of the call that begins at j (the last entry of the log
\* while the call is still in progress).
SegEnd(j) ==
    IF \E m \in j..Len(log) : log[m].kind = "end"
    THEN CHOOSE m \in j..Len(log) :
            log[m].kind = "end" /\ \A q \in j..(m - 1) : log[q].kind # "end"
    ELSE Len(log)

\* The log starts with a load: one has been called, and this is the latest.
LoadLogged == log # <<>> /\ IsBegin(1, "load")
LoadSeg == 1..SegEnd(1)
LoadReturned == LoadLogged /\ log[SegEnd(1)].op = "return"

DecoratorOps == {"command", "group", "slash_command", "user_command", "message_command"}

\* The commands of kind k in the plugin's map, as the set of their objects.
InMap(k) == {commands[k][i].val : i \in 1..Len(commands[k])}

C2_NoDuplicateChecks ==
    \A k \in KindSet : \A e \in InMap(k) : \A p \in Range(command_checks[k]) :
        Count(p, entities[e].checks) <= 1

\* C9: a command decorator given a callable that is no coroutine function
\* fails with TypeError, constructs no entity and leaves the four maps alone.
C9_NonAsyncRejected ==
    [][(ret'.op \in DecoratorOps /\ ret'.val = "sync")
        => /\ ret'.status = "TypeError"
           /\ ret'.ent = NoEnt
           /\ entities' = entities
           /\ commands' = commands]_vars

\* A decoration has failed on a plugin that already holds a command.
C9_Witness ==
    /\ ret.op \in DecoratorOps /\ ret.status = "TypeError"
    /\ \E k \in KindSet : commands[k] # <<>>

\* The newest command object made for kind e[1] under the name e[2].
Latest(e) ==
    \A d \in DOMAIN entities : (d[1] = e[1] /\ d[2] = e[2]) => d[3] <= e[3]

\* C10: decorating an async callable never fails; each map holds one entry
\* per name, and it is the command made last under that name; a load of that
\* registry pushes exactly those commands.
C10_LastWriteWins ==
    /\ (ret.op \in DecoratorOps /\ ret.val = "async") => ret.status = "ok"
    /\ \A e \in DOMAIN entities : (e \in InMap(e[1])) <=> Latest(e)
    /\ \A k \in KindSet :
          Len(commands[k]) = Cardinality({e[2] : e \in {d \in DOMAIN entities : d[1] = k}})
    /\ (LoadLogged /\ log[1].reg[1] = commands)
          => /\ \A j \in LoadSeg : log[j].op = "add" => Latest(log[j].ent)
             /\ LoadReturned
                   => \A e \in DOMAIN entities :
                         (Latest(e) /\ (e[1] = "prefix" => IsBotBase(log[1].x)))
                         => \E j \in LoadSeg : log[j].op = "add" /\ log[j].ent = e

\* A name was decorated twice and a later load pushed the second command.
C10_Witness ==
    \E e \in DOMAIN entities :
        /\ e[3] = 2
        /\ \E j \in 1..Len(log) : log[j].op = "add" /\ log[j].ent = e

\* The entries j of the segment seg with log[j].op = op and log[j].kind = kind.
Entries(seg, op, kind) == {j \in seg : log[j].op = op /\ log[j].kind = kind}

\* An unload directly follows the load the log starts with.
UnloadFollows == LoadReturned /\ SegEnd(1) < Len(log) /\ IsBegin(SegEnd(1) + 1, "unload")
UnloadSeg == (SegEnd(1) + 1)..SegEnd(SegEnd(1) + 1)
RoundTrip ==
    /\ UnloadFollows
    /\ log[SegEnd(SegEnd(1) + 1)].op = "return"
    /\ log[SegEnd(1) + 1].x = log[1].x
    /\ log[SegEnd(1) + 1].reg = log[1].reg

\* C3: when load(bot) and then unload(bot) return and the Registry Store is the
\* same at both calls, the names removed are, per kind, the names of the
\* commands added, the (callback, event) pairs removed are the pairs added,
\* and every loop that was started is cancelled.
C3_RoundTrip ==
    RoundTrip
    => /\ \A k \in KindSet :
             {log[j].x : j \in Entries(LoadSeg, "add", k)}
             = {log[j].x : j \in Entries(UnloadSeg, "remove", k)}
       /\ {<<log[j].x, log[j].y>> : j \in Entries(LoadSeg, "add_listener", "listener")}
          = {<<log[j].x, log[j].y>> : j \in Entries(UnloadSeg, "remove_listener", "listener")}
       /\ {log[j].x : j \in Entries(LoadSeg, "start", "loop")}
          \subseteq {log[j].x : j \in Entries(UnloadSeg, "cancel", "loop")}
       /\ SegEnd(SegEnd(1) + 1) = Len(log)
             => \A j \in Entries(LoadSeg, "start", "loop") : loopTask[log[j].x] = "cancelled"

\* A round trip over commands of two kinds, two listeners and a loop.
C3_Witness ==
    /\ RoundTrip
    /\ Cardinality(Entries(LoadSeg, "add", "prefix")) = 2
    /\ Entries(UnloadSeg, "remove", "slash") # {}
    /\ Cardinality(Entries(UnloadSeg, "remove_listener", "listener")) = 2
    /\ Entries(UnloadSeg, "cancel", "loop") # {}

\* The stage an entry of a load (pre = "pre_load", post = "post_load") or of
\* an unload (pre = "pre_unload", post = "post_unload") belongs to.
StageRank(e, pre, post) ==
    CASE e.op = "begin" -> 0
      [] e.op # "begin" /\ e.kind = pre -> 1
      [] e.op # "begin" /\ e.kind = "prefix" -> 2
      [] e.op # "begin" /\ e.kind = "slash" -> 3
      [] e.op # "begin" /\ e.kind = "user" -> 4
      [] e.op # "begin" /\ e.kind = "message" -> 5
      [] e.op # "begin" /\ e.kind = "listener" -> 6
      [] e.op # "begin" /\ e.kind = "loop" -> 7
      [] e.op # "begin" /\ e.kind = post -> 8
      [] e.op # "begin" /\ e.kind = "sync" -> 9
      [] e.op # "begin" /\ e.kind = "end" -> 10
      [] OTHER -> 99

\* The entries of seg come stage by stage, and a stage is entered only when
\* every hook started before it has returned.
InStageOrder(seg, pre, post) ==
    /\ \A i, j \in seg :
          i < j => StageRank(log[i], pre, post) <= StageRank(log[j], pre, post)
    /\ \A i \in seg :
          (/\ log[i].op = "hook_start"
           /\ \E j \in seg : StageRank(log[j], pre, post)
                               \in (StageRank(log[i], pre, post) + 1)..9)
          => \E m \in seg : /\ log[m].op = "hook_done"
                            /\ log[m].kind = log[i].kind
                            /\ log[m].idx = log[i].idx

\* Within seg, the entries (op, kind) walk the sequence m from its first
\* element on, one entry per element.
WalksInOrder(seg, op, kind, n) ==
    /\ \A i, j \in Entries(seg, op, kind) : i < j => log[i].idx < log[j].idx
    /\ \A j \in Entries(seg, op, kind) : log[j].idx \in 1..n

Complete(seg, op, kind, n) ==
    \A i \in 1..n : \E j \in Entries(seg, op, kind) : log[j].idx = i

\* C4: a load runs its stages in the order pre-load hooks, prefix, slash,
\* user, message commands, listeners, loops, post-load hooks, sync; each
\* command stage pushes the map's commands in the map's insertion order, and
\* a load that returns has pushed and started everything.
C4_LoadOrder ==
    LoadLogged
    => /\ InStageOrder(LoadSeg, "pre_load", "post_load")
       /\ \A k \in KindSet :
             /\ WalksInOrder(LoadSeg, "add", k, Len(log[1].reg[1][k]))
             /\ \A j \in Entries(LoadSeg, "add", k) :
                   log[j].ent = log[1].reg[1][k][log[j].idx].val
       /\ WalksInOrder(LoadSeg, "add_listener", "listener", Len(ListenerPairs(log[1].reg[2])))
       /\ WalksInOrder(LoadSeg, "start", "loop", Len(log[1].reg[3]))
       /\ LoadReturned
             => /\ \A k \in KindSet :
                      (k = "prefix" => IsBotBase(log[1].x))
                      => Complete(LoadSeg, "add", k, Len(log[1].reg[1][k]))
                /\ Complete(LoadSeg, "add_listener", "listener",
                            Len(ListenerPairs(log[1].reg[2])))
                /\ Complete(LoadSeg, "start", "loop", Len(log[1].reg[3]))
                /\ Complete(LoadSeg, "hook_done", "pre_load", Len(hooks["pre_load"]))
                /\ Complete(LoadSeg, "hook_done", "post_load", Len(hooks["post_load"]))
                /\ Entries(LoadSeg, "sync", "sync") # {}

\* A load that returned after going through every stage, with two prefix commands.
C4_Witness ==
    /\ LoadReturned
    /\ Entries(LoadSeg, "hook_done", "pre_load") # {}
    /\ Cardinality(Entries(LoadSeg, "add", "prefix")) = 2
    /\ Entries(LoadSeg, "add", "slash") # {}
    /\ Entries(LoadSeg, "add", "user") # {}
    /\ Entries(LoadSeg, "add", "message") # {}
    /\ Entries(LoadSeg, "add_listener", "listener") # {}
    /\ Entries(LoadSeg, "start", "loop") # {}
    /\ Entries(LoadSeg, "hook_done", "post_load") # {}

\* The unload calls in the log, each as the set of its entries.
UnloadSegs == {u..SegEnd(u) : u \in {j \in 1..Len(log) : IsBegin(j, "unload")}}

\* C5: an unload runs its stages in the order pre-unload hooks, prefix,
\* slash, user, message commands, listeners, loops, post-unload hooks, sync.
C5_UnloadOrder ==
    \A seg \in UnloadSegs :
        /\ InStageOrder(seg, "pre_unload", "post_unload")
        /\ \A k \in KindSet : WalksInOrder(seg, "remove", k, Len(commands[k]))
        /\ WalksInOrder(seg, "remove_listener", "listener", Len(ListenerPairs(listeners)))
        /\ WalksInOrder(seg, "cancel", "loop", Len(loops))
        /\ (\E r \in seg : log[r].op = "return")
              => /\ \A k \in KindSet : Complete(seg, "remove", k, Len(commands[k]))
                 /\ Complete(seg, "remove_listener", "listener",
                             Len(ListenerPairs(listeners)))
                 /\ Complete(seg, "cancel", "loop", Len(loops))
                 /\ Complete(seg, "hook_done", "pre_unload", Len(hooks["pre_unload"]))
                 /\ Complete(seg, "hook_done", "post_unload", Len(hooks["post_unload"]))
                 /\ \E j \in seg : log[j].op = "sync"

\* An unload that returned after going through every stage.
C5_Witness ==
    \E seg \in UnloadSegs :
        /\ \E j \in seg : log[j].op = "return"
        /\ Entries(seg, "hook_done", "pre_unload") # {}
        /\ Entries(seg, "remove", "prefix") # {}
        /\ Entries(seg, "remove", "slash") # {}
        /\ Entries(seg, "remove", "user") # {}
        /\ Entries(seg, "remove", "message") # {}
        /\ Entries(seg, "remove_listener", "listener") # {}
        /\ Entries(seg, "cancel", "loop") # {}
        /\ Entries(seg, "hook_done", "post_unload") # {}

\* The load the log starts with raised, out of the stage `where`.
LoadRaised(where) ==
    LoadLogged /\ log[SegEnd(1)].op = "raised" /\ log[SegEnd(1)].x \in where

\* C6: a pre-load hook that raises ends load(bot) with that exception, and
\* the load has added no command and no listener, prepended no check, started
\* no loop, run no post-load hook and triggered no sync.
C6_PreLoadHookAborts ==
    /\ LoadLogged
          => \A j \in LoadSeg :
                (log[j].op = "hook_raise" /\ log[j].kind = "pre_load")
                => j + 1 = SegEnd(1) /\ LoadRaised({"pre_load"})
    /\ LoadRaised({"pre_load"})
          => /\ \A j \in LoadSeg :
                   \/ log[j].op \in {"begin", "raised"}
                   \/ /\ log[j].op \in {"hook_start", "hook_done", "hook_raise"}
                      /\ log[j].kind = "pre_load"
             /\ calls = 1
                   => /\ \A b \in Bots : host[b] = EmptyHost
                      /\ \A e \in DOMAIN entities : entities[e].checks = <<>>
                      /\ \A l \in DOMAIN loopTask : loopTask[l] # "running"

\* A pre-load hook raised in a plugin that has something of everything to push.
C6_Witness ==
    /\ LoadRaised({"pre_load"})
    /\ calls = 1
    /\ \E k \in KindSet : commands[k] # <<>> /\ command_checks[k] # <<>>
    /\ listeners # <<>>
    /\ loops # <<>>
    /\ hooks["post_load"] # <<>>

\* C7: a load that raises out of a host call or a post-load hook leaves what
\* it has done: the commands and listeners it added are on the host, the
\* plugin checks it prepended head the commands' check lists, the loops it
\* started run.
C7_NoRollback ==
    /\ LoadLogged
          => \A j \in LoadSeg :
                log[j].op \in {"raise", "hook_raise"}
                => j + 1 = SegEnd(1) /\ log[j + 1].op = "raised"
    /\ (ret.op = "load" /\ ret.status = "raised" /\ LoadRaised({"body", "post_load"}))
          => \A j \in LoadSeg :
                /\ log[j].op = "add"
                      => [name |-> log[j].x, ent |-> log[j].ent]
                            \in host[log[1].x].cmds[log[j].kind]
                /\ log[j].op = "prepend"
                      => SubSeq(entities[log[j].ent].checks, 1,
                                Len(command_checks[log[j].kind]))
                         = command_checks[log[j].kind]
                /\ log[j].op = "add_listener"
                      => \E i \in 1..Len(host[log[1].x].listeners) :
                            host[log[1].x].listeners[i] = <<log[j].x, log[j].y>>
                /\ log[j].op = "start" => loopTask[log[j].x] = "running"

\* A load that raised at its last host call, after it had added a command,
\* prepended a check and added a listener.
C7_Witness ==
    /\ ret.op = "load" /\ ret.status = "raised"
    /\ LoadRaised({"body"})
    /\ \E j \in LoadSeg :
          log[j].op = "prepend" /\ command_checks[log[j].kind] # <<>>
    /\ \E j \in LoadSeg : log[j].op = "add_listener"
    /\ \E j \in LoadSeg : log[j].op = "raise" /\ log[j].kind = "loop"

\* A post-load hook raised after the load had pushed and started everything.
C7_WitnessPostHook ==
    /\ ret.op = "load" /\ ret.status = "raised"
    /\ LoadRaised({"post_load"})
    /\ \E j \in LoadSeg : log[j].op = "add"
    /\ \E j \in LoadSeg : log[j].op = "start"

\* C8: Plugin.bot raises exactly as long as load was never called; from then
\* on it is the bot of the latest load, from the first pre-load hook on and
\* through every unload and every load that raised.
C8_BotHandle ==
    /\ Plugin_bot = "RuntimeError" <=> ~LoadLogged
    /\ LoadLogged => Plugin_bot = log[1].x
    /\ pc \in {"pre_load", "post_load"} => Plugin_bot = arg

\* A second load, on another bot, raised after an earlier load on the first.
C8_Witness ==
    /\ calls = 2
    /\ ret.op = "load" /\ ret.status = "raised"
    /\ Plugin_bot = "bot2"
    /\ \E k \in KindSet : host["bot1"].cmds[k] # {}

\* The handle outlives an unload.
C8_WitnessUnload ==
    /\ ret.op = "unload" /\ ret.status = "ok"
    /\ LoadLogged
    /\ Plugin_bot = log[1].x

\* The last step was a command decorator that made a command.
Decorated == ret.op \in DecoratorOps /\ ret.status = "ok"

\* The value the claim gives a key: the keyword argument when it is not None,
\* the default otherwise (Absent when the bundle has none).
Claimed(default, given) == IF given = None THEN default ELSE given

\* C11, as stated: for every key (guild_ids, cls, extras) the command is built
\* with the keyword argument if one was given, else with the default, and
\* with nothing where there is neither.
C11_EveryKeyAsStated ==
    [][Decorated'
       => LET k == ret'.ent[1]
              kw == ret'.kwargs
          IN /\ entities'[ret'.ent].attrs.guild_ids
                = Claimed(metadata.attrs[k].guild_ids, kw.guild_ids)
             /\ entities'[ret'.ent].attrs.cls = Claimed(metadata.attrs[k].cls, kw.cls)
             /\ entities'[ret'.ent].attrs.extras
                = (IF kw.extras.present THEN kw.extras ELSE metadata.attrs[k].extras)]_vars

\* C11, amended: the rule holds for every key but two.  "extras" is always
\* there: the dict the rule selects, or a new one.  "cls" is no keyword of the
\* bundle: a prefix command made without a cls argument takes the default
\* bundle's "cls" as its class and is built without that key; otherwise the
\* default's "cls" is passed on.
C11_AttrsResolved ==
    [][Decorated'
       => LET k == ret'.ent[1]
              kw == ret'.kwargs
          IN /\ entities'[ret'.ent].attrs.guild_ids
                = Claimed(metadata.attrs[k].guild_ids, kw.guild_ids)
             /\ entities'[ret'.ent].attrs.extras.present
             /\ (k = "prefix" /\ kw.cls = None)
                   => /\ entities'[ret'.ent].attrs.cls = Absent
                      /\ metadata.attrs[k].cls # Absent
                            => entities'[ret'.ent].cls = metadata.attrs[k].cls
             /\ (k # "prefix" \/ kw.cls # None)
                   => entities'[ret'.ent].attrs.cls = metadata.attrs[k].cls]_vars

\* A falsy keyword argument has overridden a default, and a command built
\* without any extras anywhere has an extras dict.
C11_Witness ==
    /\ \E e \in DOMAIN entities :
          entities[e].attrs.guild_ids = "[]" /\ metadata.attrs[e[1]].guild_ids # Absent
    /\ \E e \in DOMAIN entities :
          /\ ~metadata.attrs[e[1]].extras.present
          /\ entities[e].attrs.extras = [present |-> TRUE, plugin |-> Self,
                                         metadata |-> SelfMetadata]

\* C12: a command's extras hold the plugin under "plugin" and its metadata
\* under "metadata", except where the dict it was given (the caller's, else
\* the default bundle's) held that key already: that value is kept.  So
\* get_parent_plugin gives the plugin for every command whose extras did not
\* define "plugin" beforehand.
C12_BackReferences ==
    [][Decorated'
       => LET k == ret'.ent[1]
              kw == ret'.kwargs
          IN LET given == IF kw.extras.present THEN kw.extras
                          ELSE metadata.attrs[k].extras
                 made == entities'[ret'.ent].attrs.extras
             IN  /\ made.plugin = (IF given.plugin = Absent THEN Self ELSE given.plugin)
                 /\ made.metadata
                    = (IF given.metadata = Absent THEN SelfMetadata ELSE given.metadata)
                 /\ given.plugin = Absent => get_parent_plugin(entities'[ret'.ent]) = Self]_vars

\* One command got the back-reference, another kept the plugin its extras named.
C12_Witness ==
    /\ \E e \in DOMAIN entities : get_parent_plugin(entities[e]) = Self
    /\ \E e \in DOMAIN entities : get_parent_plugin(entities[e]) = "other2"

LastBegin == CHOOSE u \in 1..Len(log) :
                log[u].op = "begin" /\ \A j \in (u + 1)..Len(log) : log[j].op # "begin"
LastSeg == LastBegin..Len(log)

\* The call the log ends with returned; its one sync came last, after every
\* post hook it had started had returned.
SyncedLast ==
    /\ log[Len(log)].op = "return"
    /\ Entries(LastSeg, "sync", "sync") = {Len(log) - 1}
    /\ \A i \in LastSeg :
          log[i].op = "hook_start"
          => \E m \in LastSeg : /\ m < Len(log) - 1
                                /\ log[m].op = "hook_done"
                                /\ log[m].kind = log[i].kind
                                /\ log[m].idx = log[i].idx
    /\ \A s \in {"post_load", "post_unload"} :
          log[LastBegin].kind = (IF s = "post_load" THEN "load" ELSE "unload")
          => Complete(LastSeg, "hook_done", s, Len(hooks[s]))

\* A step that ends a load or an unload.
EndsCall == pc' = "idle" /\ (calls' # calls \/ pc # "idle")

\* C13: the host's delayed command sync is triggered once by every load and
\* every unload that returns, in the step that returns and after the post
\* hooks; it is not triggered by any other step, so not by a call that raises.
C13_SyncOncePerCall ==
    [][/\ \A b \in Bots :
             host'[b].syncs
             = host[b].syncs
               + (IF EndsCall /\ ret'.status = "ok" /\ b = arg' THEN 1 ELSE 0)
       /\ (EndsCall /\ ret'.status = "ok") => SyncedLast']_vars

\* A load synced after its post-load hook, an unload after it raised out of a
\* post-unload hook did not: one sync in all.
C13_Witness ==
    /\ calls = 2
    /\ ret.op = "unload" /\ ret.status = "raised" /\ ret.val = "post_unload"
    /\ LoadReturned
    /\ Entries(LoadSeg, "hook_done", "post_load") # {}
    /\ host["bot1"].syncs = 1

\* Every call in the log, as the set of its entries.
Segs == {u..SegEnd(u) : u \in {j \in 1..Len(log) : log[j].op = "begin"}}

\* A load (an unload) body run from the present registry on hosts that hold
\* nothing, with no host call made to raise.
Fresh == [World EXCEPT !.log = <<>>, !.host = [b \in Bots |-> EmptyHost]]
NotPrefix(e) == e.kind # "prefix"
WithoutPrefix(w, b) ==
    [log |-> SelectSeq(w.log, NotPrefix),
     exc |-> w.exc,
     cmds |-> [k \in KindSet \ {"prefix"} |-> w.host[b].cmds[k]],
     listeners |-> w.host[b].listeners,
     loops |-> w.loops,
     ents |-> [e \in {d \in DOMAIN w.ents : d[1] # "prefix"} |-> w.ents[e]]]

\* C14: on a bot that is no commands.BotBase, load and unload make no call
\* for a prefix command and raise nothing on its account; for slash, user and
\* message commands, listeners and loops they do what they do on a BotBase bot.
C14_NoPrefixSupport ==
    /\ \A seg \in Segs :
          ~IsBotBase(log[CHOOSE u \in seg : log[u].op = "begin"].x)
          => \A j \in seg : log[j].kind # "prefix"
    /\ WithoutPrefix(LoadBody(Fresh, "bot2", 0), "bot2")
       = WithoutPrefix(LoadBody(Fresh, "bot1", 0), "bot1")
    /\ LoadBody(Fresh, "bot2", 0).host["bot2"].cmds["prefix"] = {}
    /\ WithoutPrefix(UnloadBody(Fresh, "bot2", 0), "bot2")
       = WithoutPrefix(UnloadBody(Fresh, "bot1", 0), "bot1")

\* A plugin with a prefix command, loaded on the bot without prefix commands
\* and unloaded from it; its slash command, listener and loop were pushed.
C14_Witness ==
    /\ LoadReturned
    /\ log[1].x = "bot2"
    /\ commands["prefix"] # <<>>
    /\ Entries(LoadSeg, "add", "slash") # {}
    /\ Entries(LoadSeg, "add_listener", "listener") # {}
    /\ Entries(LoadSeg, "start", "loop") # {}
    /\ ret.op = "unload" /\ ret.status = "ok" /\ arg = "bot2"

\* The callbacks of the entries (op, "listener") of seg under the event `key`,
\* in the order of the log.
RECURSIVE CallbacksLogged(_, _, _, _)
CallbacksLogged(from, to, op, key) ==
    IF from > to THEN <<>>
    ELSE (IF log[from].op = op /\ log[from].y = key THEN <<log[from].x>> ELSE <<>>)
         \o CallbacksLogged(from + 1, to, op, key)

\* C15: a load that returns has added, under every event key, that key's
\* callbacks in the order they were registered; an unload that returns has
\* removed them under the same key in that same order.
C15_ListenersInOrder ==
    /\ LoadReturned
          => \A i \in 1..Len(log[1].reg[2]) :
                CallbacksLogged(1, SegEnd(1), "add_listener", log[1].reg[2][i].key)
                = log[1].reg[2][i].val
    /\ \A u \in 1..Len(log) :
          (IsBegin(u, "unload") /\ log[SegEnd(u)].op = "return")
          => \A i \in 1..Len(log[u].reg[2]) :
                CallbacksLogged(u, SegEnd(u), "remove_listener", log[u].reg[2][i].key)
                = log[u].reg[2][i].val

\* Two callbacks registered under one event, added by a load and removed by
\* an unload.
C15_Witness ==
    /\ RoundTrip
    /\ \E i \in 1..Len(listeners) : Len(listeners[i].val) = 2
    /\ Cardinality(Entries(UnloadSeg, "remove_listener", "listener")) = 2

\* C16: register_loop(wait_until_ready=True) applied to a loop that already has
\* a before-start callback raises TypeError, leaves that callback as it was and
\* does not append the loop to the plugin's loops.
C16_NoDoubleBeforeLoop ==
    [][RegisteredOver =>
          /\ ret'.status = "TypeError"
          /\ before_loop' = before_loop
          /\ loops' = loops]_vars

\* The rejected registration happened, once over the user's callback and once
\* over the one an earlier register_loop(wait_until_ready=True) installed.
C16_Witness ==
    /\ ret.op = "register_loop"
    /\ ret.status = "TypeError"
    /\ before_loop[ret.val] = "_before_loop"
    /\ Len(loops) = 1

C16_WitnessUser ==
    /\ ret.op = "register_loop"
    /\ ret.status = "TypeError"
    /\ before_loop[ret.val] = "user"

\* C17 as stated: a loop registered with wait_until_ready=True and started by
\* load(bot) runs no iteration before that bot is ready.
C17_WaitsForLoadingBot ==
    [][\A l \in LoopIds : EntersBody(l) => loopRun'[l].by \in ready']_vars

\* C17: the callback of register_loop(wait_until_ready=True) never finds the
\* plugin without a bot when load started the loop; it waits for the bot that
\* is the plugin's handle when it runs, and no iteration runs before that bot
\* is ready.
C17_WaitsForHandle ==
    [][\A l \in LoopIds :
          /\ loopRun'[l].phase # "failed"
          /\ loopRun[l].phase = "scheduled" /\ loopRun'[l].hook = "_before_loop"
                => loopRun'[l].on = bot /\ bot # None
          /\ EntersBody(l) => loopRun'[l].on = loopRun[l].on /\ loopRun[l].on \in ready]_vars

\* The loop iterates after waiting for a bot other than the one whose load
\* started it, which is not ready.
C17_Witness ==
    \E l \in LoopIds :
        /\ loopRun[l].phase = "iterating"
        /\ loopRun[l].hook = "_before_loop"
        /\ loopRun[l].on # loopRun[l].by
        /\ loopRun[l].by \notin ready

\* C18 as stated: in every state the tasks held are exactly the tasks created
\* by setup / teardown that have not completed.
C18_HeldIsNotCompleted == _tasks = NotCompleted

\* C18: a task is held from the moment it is scheduled; when it completes
\* (returned, raised or cancelled) its release is handed to the event loop, and
\* it stays held until that callback is called.  The tasks held are the ones
\* not completed and the completed ones whose callback is yet to be called, so
\* the set is empty once all tasks are done and all callbacks called.
C18_HeldUntilReleased ==
    /\ _tasks = NotCompleted \cup ToBeDropped
    /\ NotCompleted \cap ToBeDropped = {}
    /\ NotCompleted = {} /\ callbacks = <<>> => _tasks = {}

\* Tasks that returned, raised and were cancelled have all been released,
\* after a state in which a completed one was still held.
C18_WitnessHeld ==
    \E t \in _tasks : created[t].state \in {"done", "raised", "cancelled"}

C18_Witness ==
    /\ Len(created) = TaskCalls
    /\ _tasks = {}
    /\ \E t \in DOMAIN created : created[t].state \in {"raised", "cancelled"}

\* C19: setup(bot) and teardown(bot) return before any step of load / unload
\* has run: the bot handle, the host, the entities, the loops and the log are
\* as they were and the task is only scheduled; they return normally, and
\* whatever the task's load or unload raises later ends in the task and is not
\* raised to a caller.
C19_FireAndForget ==
    [][/\ ret'.op \in {"setup", "teardown"} => ret'.status = "ok"
       /\ Scheduled =>
             /\ ret'.op \in {"setup", "teardown"}
             /\ created'[Len(created')].state = "scheduled"
             /\ UNCHANGED <<bot, host, entities, loopTask, log, pc, pending, orphans>>
       /\ \A t \in DOMAIN created :
             created[t].state # created'[t].state
                /\ created'[t].state \in {"raised", "cancelled"}
                => ret' = ret /\ ret.status = "ok"]_vars

\* setup returned while the plugin had no bot, and the load it scheduled raised
\* later.
C19_Witness ==
    /\ ret.op = "setup"
    /\ created # <<>>
    /\ created[1].coroutine.op = "load"
    /\ created[1].state = "raised"
    /\ Len(created) = 1

C19_WitnessUnset ==
    /\ ret.op = "setup"
    /\ bot = None
    /\ hooks["pre_load"] # <<>>
    /\ Len(created) = 1

\* C24: every GlobalContext construction with one key returns one instance and
\* constructions with different keys return different instances; the instance
\* keeps the default of its first construction, and a value set through one
\* handle is read through every handle of that key.
C24_OneInstancePerKey ==
    [][/\ \A g, h \in DOMAIN handles' :
             (handles'[g].key = handles'[h].key) = (handles'[g].self = handles'[h].self)
       /\ \A h \in DOMAIN handles' :
             /\ (contexts'[handles'[h].self]).key = handles'[h].key
             /\ (contexts'[handles'[h].self]).default = handles'[FirstOf(h)'].default
       /\ ret'.op = "set" =>
             \A h \in DOMAIN handles :
                 handles[h].key = handles[ret'.kwargs.h].key
                    => Read(h)' = [status |-> "ok", val |-> ret'.kwargs.obj]]_vars

\* Three handles, two of one key made with different defaults and one of
\* another key, after a value was set through the second of the two.
C24_Witness ==
    /\ Len(handles) = 3
    /\ handles[1].key = handles[2].key
    /\ handles[1].default # handles[2].default
    /\ handles[3].key # handles[1].key
    /\ ret.op = "set"
    /\ ret.kwargs.h = 2

\* C25: get on a context never set returns the default given to the call if
\* one was given, whatever its value, else the default given at construction,
\* and fails only when neither was given; once set(v) was called get returns v.
C25_GetResolvesDefaults ==
    [][ret'.op = "get" =>
          LET self == contexts[handles[ret'.kwargs.h].self]
              default == ret'.kwargs.default
          IN  IF self.value # Undefined
              THEN ret'.status = "ok" /\ ret'.val = self.value
              ELSE IF default # Undefined
              THEN ret'.status = "ok" /\ ret'.val = default
              ELSE IF self.default # Undefined
              THEN ret'.status = "ok" /\ ret'.val = self.default
              ELSE ret'.status = "ValueError"]_vars

\* C21: before set_parent, reading any property other than name and
\* parent_name fails with the RuntimeError of the property command and leaves
\* the placeholder as it was; name and parent_name are readable in every state.
C21_UnboundReadsFail ==
    [][ret'.op = "property" =>
          /\ UNCHANGED placeholder
          /\ ret'.kwargs \in {"name", "parent_name"} => ret'.status = "ok"
          /\ _command = <<>> /\ ret'.kwargs \notin {"name", "parent_name"}
                => ret'.status = "RuntimeError"]_vars

\* C22: for every option of the subcommand, on a placeholder without a parent
\* whose deferred names are all options: autocomplete then set_parent leaves
\* the subcommand as set_parent then autocomplete does, with the option marked
\* and the callback installed in both.
C22_EitherOrder ==
    _command = <<>> /\ AllKnown(Placeholder) =>
        \A option_name \in OptionNames, func \in Autocompleters :
            LET before == SetParent(Autocomplete(Placeholder, option_name, func), "parent1")
                after == Autocomplete(SetParent(Placeholder, "parent1"), option_name, func)
            IN  /\ before.command = after.command
                /\ before.status = "ok" /\ after.status = "ok"
                /\ InstalledOn(before.command, option_name, func)
                /\ InstalledOn(after.command, option_name, func)

\* set_parent has replaced a callback deferred for x by a later one for the
\* same option, with another option deferred after it.
C22_Witness ==
    /\ ret.op = "set_parent"
    /\ ret.status = "ok"
    /\ Len(_deferred_autocompleters) = 2
    /\ _deferred_autocompleters[1] = [key |-> "x", val |-> "ac2"]
    /\ InstalledOn(_command, "x", "ac2")
    /\ InstalledOn(_command, "y", "ac1")

\* C23: autocomplete on a placeholder without a parent never fails and only
\* defers the registration; set_parent raises ValueError exactly when some
\* deferred name is no option of the subcommand, and otherwise installs every
\* deferred callback.
C23_DeferredReplay ==
    [][/\ ret'.op = "autocomplete" /\ _command = <<>> =>
             /\ ret'.status = "ok"
             /\ _command' = <<>>
             /\ IndexOfKey(_deferred_autocompleters', ret'.kwargs) # 0
             /\ DictGet(_deferred_autocompleters', ret'.kwargs) = ret'.val
             /\ \A i \in DOMAIN _deferred_autocompleters :
                   _deferred_autocompleters[i].key # ret'.kwargs
                      => _deferred_autocompleters'[i] = _deferred_autocompleters[i]
       /\ ret'.op = "set_parent" =>
             /\ (ret'.status = "ValueError") = ~AllKnown(Placeholder)
             /\ ret'.status \in {"ok", "ValueError"}
             /\ ret'.status = "ok" =>
                   \A i \in DOMAIN _deferred_autocompleters :
                       InstalledOn(_command', _deferred_autocompleters[i].key,
                                   _deferred_autocompleters[i].val)]_vars

\* set_parent has raised over a name that is no option, after installing the
\* callback deferred before it.
C23_Witness ==
    /\ ret.op = "set_parent"
    /\ ret.status = "ValueError"
    /\ Len(_deferred_autocompleters) = 2
    /\ _deferred_autocompleters[2].key = "z"
    /\ InstalledOn(_command, "x", "ac1")

C23_WitnessInstalled ==
    /\ ret.op = "set_parent"
    /\ ret.status = "ok"
    /\ Len(_deferred_autocompleters) = 2
    /\ _command[1].marked = OptionNames
\* ------------------------------------------------------- composition claims
\* The list a dict of lists holds under a key; the empty list when it has none.
ListUnder(m, k) == IF IndexOfKey(m, k) = 0 THEN <<>> ELSE DictGet(m, k)

\* The keys a dict holds.
KeySet(m) == {m[i].key : i \in 1..Len(m)}

\* C26: a bind on a sub-registry that has a parent fails with
\* AlreadyBoundError and changes neither the recorded parent nor the Registry
\* Store of any parent; a parent once recorded is never replaced.
C26_BindOnce ==
    [][/\ sub.parent # None => sub'.parent = sub.parent
       /\ (ret'.op = "bind" /\ sub.parent # None)
             => /\ ret'.status = "AlreadyBoundError"
                /\ \A parent \in Parents : StoreOf(parent)' = StoreOf(parent)
       /\ (ret'.op = "bind" /\ sub.parent = None)
             => /\ ret'.status = "ok"
                /\ sub'.parent = ret'.val]_vars

\* A second bind, to the plugin the sub-registry is not bound to, has failed,
\* and the sub-registry has entries that a merge would have added.
C26_Witness ==
    /\ ret.op = "bind"
    /\ ret.status = "AlreadyBoundError"
    /\ ret.val # sub.parent
    /\ sub.parent \in Parents
    /\ sub.loops # <<>>
    /\ sub.command_checks["slash"] # <<>>
    /\ \E k \in KindSet : sub.commands[k] # <<>>

\* C27: a bind that succeeds leaves in the parent, under every qualified name
\* of the sub-registry, the sub-registry's entity; keeps every entry of the
\* parent under another name; appends the sub-registry's checks, loops and
\* per-event listener callbacks after the parent's, in their order; and
\* leaves the sub-registry's own store as it was.
C27_MergeOnBind ==
    [][\A parent \in Parents :
          (ret'.op = "bind" /\ ret'.status = "ok" /\ ret'.val = parent)
             => /\ \A k \in KindSet :
                      /\ KeySet(StoreOf(parent).commands[k])' =
                            KeySet(StoreOf(parent).commands[k]) \cup KeySet(sub.commands[k])
                      /\ \A n \in KeySet(sub.commands[k]) :
                            DictGet(StoreOf(parent).commands[k], n)' =
                               DictGet(sub.commands[k], n)
                      /\ \A n \in KeySet(StoreOf(parent).commands[k]) \ KeySet(sub.commands[k]) :
                            DictGet(StoreOf(parent).commands[k], n)' =
                               DictGet(StoreOf(parent).commands[k], n)
                      /\ StoreOf(parent).command_checks[k]' =
                            StoreOf(parent).command_checks[k] \o sub.command_checks[k]
                /\ StoreOf(parent).loops' = StoreOf(parent).loops \o sub.loops
                /\ KeySet(StoreOf(parent).listeners)' =
                      KeySet(StoreOf(parent).listeners) \cup KeySet(sub.listeners)
                /\ \A ev \in KeySet(StoreOf(parent).listeners) \cup KeySet(sub.listeners) :
                      ListUnder(StoreOf(parent).listeners, ev)' =
                         ListUnder(StoreOf(parent).listeners, ev) \o ListUnder(sub.listeners, ev)
                /\ SubStore' = SubStore]_vars

\* The sub-registry was bound into the plugin, which had a command under a
\* name of the sub-registry: that command object is in neither map now, and
\* the plugin's map holds the sub-registry's.  Both had a check and a loop.
C27_Witness ==
    /\ ret.op = "bind"
    /\ ret.status = "ok"
    /\ ret.val = "plugin"
    /\ \E e \in DOMAIN entities :
          /\ e[3] = 1
          /\ IndexOfKey(sub.commands[e[1]], e[2]) # 0
          /\ DictGet(sub.commands[e[1]], e[2]) = <<e[1], e[2], 2>>
          /\ DictGet(commands[e[1]], e[2]) = <<e[1], e[2], 2>>
    /\ Len(command_checks["slash"]) = 2
    /\ Len(loops) = 2

\* The sub-registry was bound into the plugin, both having a command under a
\* name of their own and a listener list under the same event.
C27_WitnessApart ==
    /\ ret.op = "bind"
    /\ ret.status = "ok"
    /\ ret.val = "plugin"
    /\ \E k \in KindSet :
          /\ Len(commands[k]) = 2
          /\ Len(sub.commands[k]) = 1
          /\ commands[k][2] = sub.commands[k][1]
    /\ \E i \in 1..Len(listeners) : Len(listeners[i].val) = 2

\* ------------------------------------------------------ concurrency claims
\* C28: load and unload leave a hook stage only when every hook the stage
\* started has completed: no hook is still running once the call that
\* gathered it has gone on or has raised.
C28_StageLeftWhenAllDone == orphans = {}

\* The tasks of a setup(b) and of a later teardown(b).
LoadThenUnload(t, u) ==
    /\ t < u
    /\ created[t].coroutine.op = "load"
    /\ created[u].coroutine.op = "unload"
    /\ created[t].coroutine.bot = created[u].coroutine.bot

\* Both tasks are done, and no command of the plugin is on the host and none
\* of its loops runs.
NothingLeftAfterBoth ==
    \A t, u \in DOMAIN created :
       (LoadThenUnload(t, u) /\ Len(created) = 2
          /\ created[t].state = "done" /\ created[u].state = "done")
          => /\ \A k \in KindSet : host[created[t].coroutine.bot].cmds[k] = {}
             /\ \A l \in LoopIds : loopTask[l] # "running"

\* C29: the unload task of a teardown(b) called after setup(b) runs none of
\* its steps while the load task is unfinished, and once both tasks are done
\* no command of the plugin is on the host and none of its loops runs.
C29_LoadUnloadNeverOverlap ==
    /\ \A t, u \in DOMAIN created :
          (LoadThenUnload(t, u) /\ created[t].state = "running")
             => created[u].state = "scheduled"
    /\ NothingLeftAfterBoth

\* What another task sees of the plugin on bot b: every command, listener
\* and loop of the plugin, or none of them.
AllOn(b) ==
    /\ \A k \in KindSet :
          (k # "prefix" \/ IsBotBase(b))
             => \A i \in 1..Len(commands[k]) :
                   [name |-> commands[k][i].key, ent |-> commands[k][i].val]
                      \in host[b].cmds[k]
    /\ Range(ListenerPairs(listeners)) \subseteq Range(host[b].listeners)
    /\ \A l \in Range(loops) : loopTask[l] = "running"

NoneOn(b) ==
    /\ \A k \in KindSet : host[b].cmds[k] = {}
    /\ host[b].listeners = <<>>
    /\ \A l \in Range(loops) : loopTask[l] # "running"

\* No host call and no hook has raised since the last load began.
NoRaise == \A i \in 1..Len(log) : log[i].op \notin {"raise", "raised", "hook_raise"}

\* Something of every sort is declared.
FullyDeclared ==
    /\ \E k \in KindSet : commands[k] # <<>>
    /\ listeners # <<>>
    /\ loops # <<>>

\* How many host calls and loop starts or cancels the current call has made.
BodySteps ==
    Cardinality({i \in LastSeg :
                    log[i].op \in {"add", "add_listener", "start",
                                   "remove", "remove_listener", "cancel"}})

\* C30: load and unload are suspended only in their hook stages: a call
\* suspended in its first hook stage has made none of its host calls, loop
\* starts or cancels, a call suspended in its second hook stage has made all
\* of them; and while no step has raised, every state another task can see
\* has all of the plugin on the host or none of it.
C30_AllOrNothing ==
    /\ pc \in {"pre_load", "pre_unload"} => BodySteps = 0
    /\ pc \in {"post_load", "post_unload"} => BodySteps = HostCalls(arg)
    /\ NoRaise => AllOn("bot1") \/ NoneOn("bot1")

\* A load is suspended in its post-load stage with everything on the host.
C30_Witness ==
    /\ pc = "post_load"
    /\ NoRaise
    /\ FullyDeclared
    /\ AllOn("bot1")
    /\ ~NoneOn("bot1")

\* An unload after a load is suspended in its post-unload stage with nothing
\* left on the host.
C30_WitnessUnload ==
    /\ pc = "post_unload"
    /\ NoRaise
    /\ FullyDeclared
    /\ calls = 2
    /\ log[1].kind = "load"
    /\ NoneOn("bot1")

\* ------------------------------------------------------ frame-effect claims
\* C31: a decorator call leaves its inputs as they were: the plugin's default
\* attribute bundles, nested extras dicts included, and the mappings the
\* caller passed, the extras argument included.
C31_InputsUntouched ==
    [][ret'.op \in DecoratorOps
          => /\ metadata' = metadata
             /\ KwargsAfter(ret'.kwargs) = ret'.kwargs]_vars

\* The same, of the default bundles alone.
DefaultsUntouched == [][ret'.op \in DecoratorOps => metadata' = metadata]_vars

\* The same, of the caller's mappings alone.
ArgumentsUntouched ==
    [][ret'.op \in DecoratorOps => KwargsAfter(ret'.kwargs) = ret'.kwargs]_vars

\* The list `front` is the beginning of the list `whole`.
StartsWith(whole, front) ==
    /\ Len(front) <= Len(whole)
    /\ SubSeq(whole, 1, Len(front)) = front

\* C32: an unload leaves the check list of every command as it was; after an
\* unload that follows a load, the plugin-wide checks of its kind are still
\* at the front of the check list of every command that load pushed.
C32_UnloadKeepsChecks ==
    [][ret'.op = "unload"
          => /\ \A e \in DOMAIN entities : entities'[e].checks = entities[e].checks
             /\ (ret.op = "load" /\ ret.status = "ok")
                   => \A k \in KindSet : \A e \in InMap(k) :
                         (k = "prefix" => IsBotBase(arg))
                            => StartsWith(entities'[e].checks, command_checks[k])]_vars

\* An unload has returned after a load, on a command with a plugin-wide
\* check at the front of its check list and a check of its own behind it.
C32_Witness ==
    /\ ret.op = "unload"
    /\ ret.status = "ok"
    /\ log[1].kind = "load"
    /\ log[Len(log)].op = "return"
    /\ \E k \in KindSet : \E e \in InMap(k) :
          /\ command_checks[k] # <<>>
          /\ StartsWith(entities[e].checks, command_checks[k])
          /\ entities[e].checks[Len(entities[e].checks)] \in LocalPreds

\* The Registry Store and the hook lists.
Store == <<commands, command_checks, listeners, loops, hooks>>

\* C33: no step of a load or an unload changes the Registry Store or a hook
\* list, and a load that returns has pushed every entity of the store,
\* however many loads and unloads came before it.
C33_StoreOnlyRead ==
    [][log' # log
          => /\ Store' = Store
             /\ (ret'.op = "load" /\ ret'.status = "ok" /\ pc' = "idle")
                   => AllOn("bot1")']_vars

\* A second load has returned, after an unload, with a command, a check, a
\* listener, a loop and hooks in the store.
C33_Witness ==
    /\ calls = 3
    /\ ret.op = "load"
    /\ ret.status = "ok"
    /\ pc = "idle"
    /\ FullyDeclared
    /\ command_checks["slash"] # <<>>
    /\ hooks["pre_load"] # <<>>
    /\ hooks["post_unload"] # <<>>
    /\ host["bot1"].syncs = 3

\* What the declaration-time operations leave in ret.op.
CheckOps == {"command_check", "slash_command_check", "user_command_check",
             "message_command_check"}
DeclarationOps ==
    DecoratorOps \cup CheckOps
       \cup {"add_listeners", "register_loop", "load_hook", "unload_hook"}

\* C34: a declaration-time operation, made before or after a load, makes no
\* host call, starts or cancels no loop and leaves the bot handle alone: the
\* command it creates is not on the host, and a check it registers is in no
\* command's check list, until a load puts them there.
C34_DeclarationsStayLocal ==
    [][ret'.op \in DeclarationOps
          => /\ host' = host
             /\ bot' = bot
             /\ loopTask' = loopTask
             /\ log' = log
             /\ \A b \in Bots : \A k \in KindSet : \A c \in host'[b].cmds[k] :
                   c.ent # ret'.ent
             /\ \A e \in DOMAIN entities : entities'[e] = entities[e]]_vars

\* A slash command was declared on a loaded plugin: the bot holds the
\* plugin's listener and not the command.
C34_Witness ==
    /\ ret.op = "slash_command"
    /\ ret.status = "ok"
    /\ bot = "bot1"
    /\ calls >= 1
    /\ host["bot1"].listeners # <<>>
    /\ host["bot1"].cmds["slash"] = {}
    /\ commands["slash"] # <<>>

\* A plugin-wide check was declared on a loaded plugin whose command is on
\* the bot: the command's check list is still empty.
C34_WitnessCheck ==
    /\ ret.op = "slash_command_check"
    /\ calls >= 1
    /\ \E c \in host["bot1"].cmds["slash"] : entities[c.ent].checks = <<>>
    /\ command_checks["slash"] # <<>>

\* ------------------------------------------------------------ safety claims
\* The kind whose check list a check decorator writes.
CheckKind(op) ==
    CASE op = "command_check" -> "prefix"
      [] op = "slash_command_check" -> "slash"
      [] op = "user_command_check" -> "user"
      [] op = "message_command_check" -> "message"

\* Every plugin-wide predicate in the check list of a command is in the
\* plugin-wide check list of that command's kind.
OnlyOwnKind ==
    \A e \in DOMAIN entities :
       \A p \in Range(entities[e].checks) \cap PluginPreds :
          p \in Range(command_checks[e[1]])

\* C35: a check decorator appends the predicate it returns to the check list
\* of its kind and changes no other check list and no command map; whatever
\* loads were made, a plugin-wide predicate is in the check list of commands
\* of the kind it was registered for only.
C35_ChecksKeepToTheirKind ==
    [][/\ ret'.op \in CheckOps
             => /\ command_checks' =
                      [command_checks EXCEPT ![CheckKind(ret'.op)] = Append(@, ret'.val)]
                /\ commands' = commands
                /\ ret'.status = "ok"
       /\ OnlyOwnKind']_vars

\* A load has pushed a command that took the check of its own kind, while a
\* check of another kind is registered.
C35_Witness ==
    /\ ret.op = "load"
    /\ ret.status = "ok"
    /\ \E e \in DOMAIN entities : \E k \in KindSet \ {e[1]} :
          /\ command_checks[k] # <<>>
          /\ command_checks[e[1]] # <<>>
          /\ StartsWith(entities[e].checks, command_checks[e[1]])

\* The two stages of load, or of unload.
StagesOf(op) == {op2 \in Stages : op2 \in {"pre_" \o op, "post_" \o op}}

\* How often the call the log ends with has started the i-th hook of a stage.
Started(stage, i) ==
    Cardinality({j \in LastSeg : /\ log[j].op = "hook_start"
                                 /\ log[j].kind = stage
                                 /\ log[j].idx = i})

\* The call the log ends with is a call of op; it started each hook of the
\* stages of op n times for some n in `times`, and no hook of another stage.
RanItsHooks(op, times) ==
    /\ log[LastBegin].kind = op
    /\ \A stage \in StagesOf(op) : \A i \in 1..Len(hooks[stage]) :
          Started(stage, i) \in times
    /\ \A j \in LastSeg : log[j].op = "hook_start" => log[j].kind \in StagesOf(op)

\* C36 as stated: the hook decorators file each callback under its one
\* stage, and every load, once over, has run each pre-load and each post-load
\* hook once and no unload hook; every unload likewise.
C36_EveryCallRunsItsHooks ==
    (pc = "idle" /\ log # <<>>)
       => \/ RanItsHooks("load", {1})
          \/ RanItsHooks("unload", {1})

\* C36, amended: the hook decorators file each callback under its one stage;
\* every load that returns has run each pre-load and each post-load hook
\* once, a load that raises has run each at most once, and neither has run
\* an unload hook; every unload likewise.
C36_ReturningCallRunsItsHooks ==
    [][/\ ret'.op \in {"load_hook", "unload_hook"}
             => hooks' = [hooks EXCEPT
                             ![IF ret'.op = "load_hook"
                               THEN (IF ret'.kwargs THEN "post_load" ELSE "pre_load")
                               ELSE (IF ret'.kwargs THEN "post_unload" ELSE "pre_unload")]
                                = Append(@, ret'.val)]
       /\ (log # <<>>
             => /\ RanItsHooks("load", {0, 1}) \/ RanItsHooks("unload", {0, 1})
                /\ log[Len(log)].op = "return"
                      => RanItsHooks("load", {1}) \/ RanItsHooks("unload", {1}))']_vars

\* A load has returned on a plugin with a load hook and an unload hook.
C36_Witness ==
    /\ ret.op = "load"
    /\ ret.status = "ok"
    /\ pc = "idle"
    /\ hooks["pre_load"] # <<>> \/ hooks["post_load"] # <<>>
    /\ hooks["pre_unload"] # <<>> \/ hooks["post_unload"] # <<>>

\* An unload has returned on a plugin with a hook in each of its stages.
C36_WitnessUnload ==
    /\ ret.op = "unload"
    /\ ret.status = "ok"
    /\ pc = "idle"
    /\ hooks["pre_unload"] # <<>>
    /\ hooks["post_unload"] # <<>>

\* How many subcommands the placeholder has had made on a parent.
MadeBy(by) == Cardinality({j \in DOMAIN attached : attached[j].by = by})

\* C37: the subcommand behind a placeholder is made and attached to a parent
\* at most once; a set_parent on a placeholder that has its subcommand makes
\* and attaches nothing and replays no deferred autocompleter.
C37_FinalizedOnce ==
    [][/\ MadeBy("placeholder")' <= 1
       /\ ret'.op = "set_parent" /\ _command # <<>>
             => /\ attached' = attached
                /\ _command' = _command]_vars

\* The second set_parent alone makes and attaches nothing.
C37_SecondMakesNothing ==
    [][ret'.op = "set_parent" /\ _command # <<>> => attached' = attached]_vars

\* The second set_parent alone leaves the subcommand and what is installed on
\* it as they were.
C37_SecondReplaysNothing ==
    [][ret'.op = "set_parent" /\ _command # <<>> => _command' = _command]_vars

\* The place of the first deferred name that is no option of the subcommand.
FirstUnknown(deferred) ==
    CHOOSE i \in DOMAIN deferred :
        /\ deferred[i].key \notin OptionNames
        /\ \A j \in 1..(i - 1) : deferred[j].key \in OptionNames

\* The properties that go through the property command.
Proxied == Properties \ {"name", "parent_name", "qualified_name", "docstring"}

\* C39: a set_parent that raises ValueError over a name that is no option
\* leaves the placeholder with the subcommand it made on the parent, readable
\* through the proxied properties, and with every callback deferred before
\* the failing name installed and its option marked.
C39_FailureKeepsSubcommand ==
    [][ret'.op = "set_parent" /\ ret'.status = "ValueError" =>
          /\ _command' # <<>>
          /\ _command'[1].parent = ret'.val
          /\ attached' = Append(attached, Attachment(ret'.val, "placeholder", 0))
          /\ \A property \in Proxied : (Property(property) = "ok")'
          /\ \A j \in 1..(FirstUnknown(_deferred_autocompleters) - 1) :
                InstalledOn(_command', _deferred_autocompleters[j].key,
                            _deferred_autocompleters[j].val)]_vars

\* set_parent has raised over the second of three deferred names, with the
\* first installed and the third not.
C39_Witness ==
    /\ ret.op = "set_parent"
    /\ ret.status = "ValueError"
    /\ Len(_deferred_autocompleters) = 3
    /\ _deferred_autocompleters[1].key = "y"
    /\ _deferred_autocompleters[2].key = "z"
    /\ InstalledOn(_command, "y", _deferred_autocompleters[1].val)
    /\ _command[1].marked = {"y"}

\* The child placeholder has its subcommand, made on the given group.
FinalizedOn(child, entity) ==
    /\ child.command # <<>>
    /\ child.command[1].parent = entity

\* No set_parent of a child has raised: it raises only over a deferred name
\* that is no option, and a deferred name is never dropped.
NoChildFailed == \A i \in DOMAIN subgroup.children : AllKnown(subgroup.children[i])

\* Every child in the list has its subcommand on the group's current command.
ChildrenFinalized ==
    \A i \in DOMAIN subgroup.children :
        FinalizedOn(subgroup.children[i], subgroup.command[1])

\* C38: when the group placeholder has its command and no set_parent of a
\* child has raised, every child placeholder declared on it has its subcommand
\* on the group's command: a set_parent of the group that returns makes the
\* subcommands of the children declared so far in list order, and a child
\* declared afterwards gets its subcommand on declaration; either way the
\* child is appended to the group's list.
C38_GroupFinalizesChildren ==
    [][/\ (subgroup.command # <<>> /\ NoChildFailed => ChildrenFinalized)'
       /\ ret'.op = "group_set_parent" /\ ret'.status = "ok" =>
             /\ subgroup'.command = <<GroupEntity(Len(attached) + 1)>>
             /\ Len(subgroup'.children) = Len(subgroup.children)
             /\ ChildrenFinalized'
             /\ attached' = attached \o <<Attachment(ret'.val, "group", 0)>>
                   \o [k \in 1..Len(subgroup.children) |->
                          Attachment(subgroup'.command[1], "child", k)]
       /\ ret'.op = "group_sub_command" =>
             /\ Len(subgroup'.children) = Len(subgroup.children) + 1
             /\ SubSeq(subgroup'.children, 1, Len(subgroup.children)) = subgroup.children
             /\ subgroup'.command = subgroup.command
             /\ IF subgroup.command # <<>>
                THEN /\ FinalizedOn(subgroup'.children[Len(subgroup'.children)],
                                    subgroup.command[1])
                     /\ attached' = Append(attached,
                                           Attachment(subgroup.command[1], "child",
                                                      Len(subgroup'.children)))
                ELSE /\ subgroup'.children[Len(subgroup'.children)].command = <<>>
                     /\ attached' = attached]_vars

\* The group's set_parent has made the subcommands of two children declared
\* before it, the first with a deferred autocompleter now installed.
C38_Witness ==
    /\ ret.op = "group_set_parent"
    /\ ret.status = "ok"
    /\ Len(subgroup.children) = 2
    /\ ChildrenFinalized
    /\ InstalledOn(subgroup.children[1].command, "x", "ac1")
    /\ subgroup.children[2].deferred = <<>>

\* A child declared after the group's set_parent has its subcommand on the
\* group, beside a child declared before it.
C38_WitnessAfter ==
    /\ ret.op = "group_sub_command"
    /\ Len(subgroup.children) = 2
    /\ Len(attached) = 3
    /\ attached[3] = Attachment(subgroup.command[1], "child", 2)
    /\ ChildrenFinalized

====
